---- MODULE Spec2Model ----
(***************************************************************************)
(* Model of the SERP update and brand-mention pipeline of the seomax       *)
(* backend: the batch drivers (main.update_serp_data_direct and            *)
(* LLMWorker.run_worker_cycle), the mention analyzer and the company       *)
(* extractors.                                                             *)
(*                                                                         *)
(* Python strings are sequences of one-character strings.  None is         *)
(* NoneStr for a string-valued field and NoPos (0) for a line number,      *)
(* which the code counts from 1.                                           *)
(***************************************************************************)
EXTENDS Integers, Sequences, FiniteSets, TLC

\* ------------------------------------------------------------------------
\* Bounds of the analyzer inputs
Chars == {"a", "A", "\n"}
MaxTextLen == 3
MaxBrandLen == 1
MaxCompLen == 1
MaxComps == 2

NoneStr == <<"<None>">>
NoPos == 0

SeqsUpTo(S, n) == UNION {[1..k -> S] : k \in 0..n}

\* ------------------------------------------------------------------------
\* String primitives
\* a comparison that forgets .lower()
LowerChar_none(c) == c

LowerChar(c) ==
    CASE c = "A" -> "a"
      [] c = "B" -> "b"
      [] c = "C" -> "c"
      [] OTHER -> c

Lower(s) == [i \in 1..Len(s) |-> LowerChar(s[i])]

\* Python's `sub in s`
StrIn(sub, s) ==
    \E i \in 0..(Len(s) - Len(sub)) : SubSeq(s, i + 1, i + Len(sub)) = sub

\* Python's s.split(sep) for a one-character separator
RECURSIVE SplitFrom(_, _, _, _)
SplitFrom(s, sep, i, cur) ==
    IF i > Len(s) THEN <<cur>>
    ELSE IF s[i] = sep THEN <<cur>> \o SplitFrom(s, sep, i + 1, <<>>)
    ELSE SplitFrom(s, sep, i + 1, Append(cur, s[i]))

Split(s, sep) == SplitFrom(s, sep, 1, <<>>)

\* ------------------------------------------------------------------------
\* LLMWorker.analyze_brand_mentions_in_response

\* the inner `for i, line in enumerate(lines, 1)` loop with its break:
\* the first line holding the name, or the previous value of the position
\* a line number counted from 0
RECURSIVE LineScan_zero(_, _, _, _)
LineScan_zero(name, lines, i, position) ==
    IF i > Len(lines) THEN position
    ELSE IF StrIn(Lower(name), Lower(lines[i])) THEN i - 1
    ELSE LineScan_zero(name, lines, i + 1, position)

RECURSIVE LineScan(_, _, _, _)
LineScan(name, lines, i, position) ==
    IF i > Len(lines) THEN position
    ELSE IF StrIn(Lower(name), Lower(lines[i])) THEN i
    ELSE LineScan(name, lines, i + 1, position)

\* the `for brand in brand_names` loop (no break)
RECURSIVE BrandLoop(_, _, _, _, _, _)
BrandLoop(brand_names, k, response_lower, lines, mentioned_brands, brand_position) ==
    IF k > Len(brand_names)
    THEN [mentioned_brands |-> mentioned_brands, brand_position |-> brand_position]
    ELSE IF StrIn(Lower(brand_names[k]), response_lower)
         THEN BrandLoop(brand_names, k + 1, response_lower, lines,
                        Append(mentioned_brands, brand_names[k]),
                        LineScan(brand_names[k], lines, 1, brand_position))
         ELSE BrandLoop(brand_names, k + 1, response_lower, lines,
                        mentioned_brands, brand_position)

\* the competitor loop without its break: the last match wins
RECURSIVE CompetitorLoop_last(_, _, _, _)
CompetitorLoop_last(competitor_names, k, response_lower, lines) ==
    IF k > Len(competitor_names)
    THEN [mentioned_competitors |-> <<>>, mentioned_competitor |-> NoneStr,
          competitor_position |-> NoPos]
    ELSE LET rest == CompetitorLoop_last(competitor_names, k + 1, response_lower, lines)
         IN  IF StrIn(Lower(competitor_names[k]), response_lower)
             THEN IF rest.mentioned_competitor # NoneStr
                  THEN [rest EXCEPT !.mentioned_competitors =
                                        <<competitor_names[k]>> \o @]
                  ELSE [mentioned_competitors |-> <<competitor_names[k]>>,
                        mentioned_competitor |-> competitor_names[k],
                        competitor_position |->
                            LineScan(competitor_names[k], lines, 1, NoPos)]
             ELSE rest

\* the `for competitor in competitor_names` loop, left at the first match
RECURSIVE CompetitorLoop(_, _, _, _)
CompetitorLoop(competitor_names, k, response_lower, lines) ==
    IF k > Len(competitor_names)
    THEN [mentioned_competitors |-> <<>>, mentioned_competitor |-> NoneStr,
          competitor_position |-> NoPos]
    ELSE IF StrIn(Lower(competitor_names[k]), response_lower)
         THEN [mentioned_competitors |-> <<competitor_names[k]>>,
               mentioned_competitor |-> competitor_names[k],
               competitor_position |-> LineScan(competitor_names[k], lines, 1, NoPos)]
         ELSE CompetitorLoop(competitor_names, k + 1, response_lower, lines)

\* The early return for an empty response carries no "mentioned_competitor"
\* key; the caller reads it with .get(), which yields None.
analyze_brand_mentions_in_response(llm_response, brand_names, competitor_names) ==
    IF llm_response = <<>>
    THEN [brand_mentioned |-> FALSE, competitor_mentioned |-> FALSE,
          mentioned_brands |-> <<>>, mentioned_competitors |-> <<>>,
          mentioned_competitor |-> NoneStr,
          brand_position |-> NoPos, competitor_position |-> NoPos,
          confidence |-> 0]
    ELSE LET response_lower == Lower(llm_response)
             lines == Split(llm_response, "\n")
             b == BrandLoop(brand_names, 1, response_lower, lines, <<>>, NoPos)
             c == CompetitorLoop(competitor_names, 1, response_lower, lines)
         IN  [brand_mentioned |-> Len(b.mentioned_brands) > 0,
              competitor_mentioned |-> Len(c.mentioned_competitors) > 0,
              mentioned_brands |-> b.mentioned_brands,
              mentioned_competitors |-> c.mentioned_competitors,
              mentioned_competitor |-> c.mentioned_competitor,
              brand_position |-> b.brand_position,
              competitor_position |-> c.competitor_position,
              confidence |-> 95]

\* main.analyze_brand_mentions_for_word_direct, the mention tests
direct_brand_mentioned(brand_name, llm_response) ==
    StrIn(Lower(brand_name), Lower(llm_response))

\* ------------------------------------------------------------------------
\* Company extraction

Whitespace == {" ", "\n"}

\* Python's s.strip()
RECURSIVE LStrip(_)
LStrip(s) == IF s # <<>> /\ Head(s) \in Whitespace THEN LStrip(Tail(s)) ELSE s

RECURSIVE RStrip(_)
RStrip(s) ==
    IF s # <<>> /\ s[Len(s)] \in Whitespace THEN RStrip(SubSeq(s, 1, Len(s) - 1)) ELSE s

Strip(s) == RStrip(LStrip(s))

\* Python's xs[:n]
Take(xs, n) == SubSeq(xs, 1, IF Len(xs) < n THEN Len(xs) ELSE n)

MapStrip(xs) == [i \in 1..Len(xs) |-> Strip(xs[i])]

MaxCompanies == 10
MinNameLen == 2

\* An extraction result: the returned list, or the exception raised.
Returned(companies) == [raised |-> FALSE, companies |-> companies]
Raised == [raised |-> TRUE, companies |-> <<>>]

\* The answer of the HTTP call of an extractor.  status 0 stands for a
\* request that raised (timeout, connection error, body without the
\* expected keys); json tells what json.loads makes of the content:
\* "list" (a JSON array, whose items are `items`), "other" (valid JSON that
\* is not an array) or "invalid".
HttpAnswer(status, content, json, items) ==
    [status |-> status, content |-> content, json |-> json, items |-> items]

\* [c.strip() for c in companies_text.split(',') if c.strip()]
CommaItems(companies_text) ==
    SelectSeq(MapStrip(Split(companies_text, ",")), LAMBDA c : c # <<>>)

\* main.extract_companies_from_response_direct: the text only fills the
\* prompt; every failure is re-raised.
extract_companies_from_response_direct(llm_response, answer) ==
    IF answer.status = 200
    THEN Returned(Take(CommaItems(answer.content), MaxCompanies))
    ELSE Raised

\* LLMWorker.extract_companies_from_response: every failure yields [].
extract_companies_from_response(llm_response, answer) ==
    IF answer.status = 200
    THEN IF answer.json = "list" THEN Returned(Take(answer.items, MaxCompanies))
         ELSE IF answer.json = "other" THEN Returned(<<>>)
         ELSE Returned(Take(CommaItems(answer.content), MaxCompanies))
    ELSE Returned(<<>>)

\* LLMService._extract_companies_fallback.  The marker words of the source
\* are Russian; they are written here in Latin transliteration.
keywords == <<
    <<"k","o","m","p","a","n","i","y","a">>,
    <<"b","r","e","n","d">>,
    <<"s","e","r","v","i","s">>,
    <<"m","a","g","a","z","i","n">>,
    <<"p","r","o","i","z","v","o","d","i","t","e","l">>,
    <<"p","l","a","t","f","o","r","m","a">>,
    <<"k","o","r","p","o","r","a","t","s","i","y","a">> >>

\* Python's s.split(sep) for a separator of several characters
RECURSIVE SplitStrFrom(_, _, _, _)
SplitStrFrom(s, sep, i, cur) ==
    IF i > Len(s) THEN <<cur>>
    ELSE IF i + Len(sep) - 1 <= Len(s) /\ SubSeq(s, i, i + Len(sep) - 1) = sep
         THEN <<cur>> \o SplitStrFrom(s, sep, i + Len(sep), <<>>)
         ELSE SplitStrFrom(s, sep, i + 1, Append(cur, s[i]))

SplitStr(s, sep) == SplitStrFrom(s, sep, 1, <<>>)

Last(xs) == xs[Len(xs)]

\* line.split(' - ')[0].strip().split('. ')[-1]
CandidateName(line) ==
    Last(SplitStr(Strip(SplitStr(line, <<" ", "-", " ">>)[1]), <<".", " ">>))

\* the body of `for keyword in keywords` for one line: one append per
\* marker word found in the line
RECURSIVE KeywordLoop(_, _)
KeywordLoop(line, k) ==
    IF k > Len(keywords) THEN <<>>
    ELSE (IF StrIn(Lower(keywords[k]), Lower(line)) /\ Len(CandidateName(line)) > MinNameLen
          THEN <<CandidateName(line)>> ELSE <<>>)
         \o KeywordLoop(line, k + 1)

RECURSIVE FallbackLines(_, _)
FallbackLines(lines, i) ==
    IF i > Len(lines) THEN <<>>
    ELSE KeywordLoop(lines[i], 1) \o FallbackLines(lines, i + 1)

\* the list `companies` before list(set(companies))[:10]
FallbackCandidates(text) == FallbackLines(Split(text, "\n"), 1)

Range(xs) == {xs[i] : i \in 1..Len(xs)}

\* list(set(companies))[:10]: a set has no order of its own, so every
\* duplicate-free listing of it, cut at 10, is a possible result
SetListings(S, n) ==
    LET m == IF Cardinality(S) < n THEN Cardinality(S) ELSE n
    IN  {xs \in [1..m -> S] : \A i, j \in 1..m : i # j => xs[i] # xs[j]}

_extract_companies_fallback(text) ==
    SetListings(Range(FallbackCandidates(text)), MaxCompanies)

\* LLMService.extract_companies_from_text.  available tells whether one of
\* OPENAI, ANTHROPIC, GEMINI is configured; response is what
\* make_request_with_retry returns.  The value is the set of lists the call
\* may return.
extract_companies_from_text(text, available, response) ==
    IF ~available THEN _extract_companies_fallback(text)
    ELSE IF response.error THEN _extract_companies_fallback(text)
    ELSE IF Strip(response.content) = <<>> THEN {<<>>}
    ELSE {Take(SelectSeq(MapStrip(Split(Strip(response.content), ",")),
                         LAMBDA c : c # <<>> /\ Len(c) > MinNameLen),
               MaxCompanies)}

\* ------------------------------------------------------------------------
\* State

VARIABLES
    now,        \* the clock, in days (datetime.now)
    settings,   \* provider name -> whether its API key is configured
    words,      \* table words
    llms,       \* table llm
    projects,   \* table brand_projects
    competitors,\* table competitors
    db,         \* committed rows of word_serp, companies, brand_mentions
    run,        \* the batch-driver invocations
    started,    \* number of invocations started so far
    an_in,      \* analyzer call: its arguments
    an_out,     \* analyzer call: its result
    ex_in,      \* extractor call: its arguments
    ex_out,     \* extractor call: its result
    clock,      \* time.time(), in seconds
    cache,      \* LLMService.cache: key -> content and timestamp
    rq,         \* the make_request_with_retry call in progress
    rs,         \* the LLMResponse of the last call returned
    word_groups,\* table word_groups
    api         \* the API calls made so far and the response of the last one

dataVars == <<settings, words, llms, projects, competitors>>
batchVars == <<now, db, run, started>>
anVars == <<an_in, an_out>>
exVars == <<ex_in, ex_out>>
svcVars == <<clock, cache, rq, rs>>
apiVars == <<word_groups, api>>
vars == <<now, settings, words, llms, projects, competitors, db, run,
          started, an_in, an_out, ex_in, ex_out, clock, cache, rq, rs,
          word_groups, api>>

\* Bounds of the batch model
MaxTime == 14
MaxRuns == 2
TickSteps == {7}
Runs == 1..MaxRuns

FreshDays == 14
CommitEvery == 10

NoGroup == 0
Idle == [fn |-> "none"]

\* LLMRequest, with its defaults written out by the callers
LLMRequest(prompt, provider, model, max_tokens, temperature, system_prompt) ==
    [prompt |-> prompt, provider |-> provider, model |-> model, max_tokens |-> max_tokens,
     temperature |-> temperature, system_prompt |-> system_prompt]

NoRequest == LLMRequest(<<>>, "none", NoneStr, 0, <<>>, NoneStr)

\* no make_request_with_retry call has been made: n counts the calls made,
\* LLMResponse.error: None, or a message; the messages here are not empty
NoError == "None"
NotConfigured == "not configured"
ErrorMessages == {"e1", "e2"}

\* `if response.error`
Failed(response) == response.error # NoError

\* calls the provider calls of the call in progress, failures those that
\* raised, sleeps the delays it has waited
\* last_error is the variable of the retry loop; errors, the messages of
\* the failures of the call in progress, is kept for the properties
IdleCall ==
    [pc |-> "idle", request |-> NoRequest, attempt |-> 0, calls |-> 0, failures |-> 0,
     sleeps |-> <<>>, n |-> 0, last_error |-> NoError, errors |-> <<>>]

\* self.cache = {}
EmptyCache == [k \in {} |-> Idle]

\* no API call has been made: n counts the calls that ran no batch, call,
\* status and body are the last request answered and its response, pending
\* the call that waits for its batch run
NoPending == [run |-> 0, call |-> Idle, brand_projects |-> <<>>]
NoApiCall == [n |-> 0, call |-> Idle, status |-> 0, body |-> Idle, pending |-> NoPending]

\* LLMService.__init__
NoService ==
    /\ clock = 0
    /\ cache = EmptyCache
    /\ rq = IdleCall
    /\ rs = Idle

\* ------------------------------------------------------------------------
\* Tables

\* a row of word_groups; the users are 1 and 2
WordGroup(uuid, name, user_id) == [uuid |-> uuid, name |-> name, user_id |-> user_id]
Word(uuid, status, group_id) ==
    [uuid |-> uuid, status |-> status, group_id |-> group_id, name |-> <<"k">>]
LLM(uuid, name, is_active) == [uuid |-> uuid, name |-> name, is_active |-> is_active]
\* a project of user 1, with the column default of status
BrandProject(uuid, brand_name, word_group_id) ==
    [uuid |-> uuid, brand_name |-> brand_name, word_group_id |-> word_group_id,
     name |-> <<"p">>, user_id |-> 1, status |-> 1]
Competitor(uuid, name, project_id) == [uuid |-> uuid, name |-> name, project_id |-> project_id]

WordSerp(uuid, content, llm_id, word_id, create_time) ==
    [table |-> "word_serp", uuid |-> uuid, content |-> content, llm_id |-> llm_id,
     word_id |-> word_id, create_time |-> create_time]
Company(uuid, name, serp_id) ==
    [table |-> "companies", uuid |-> uuid, name |-> name, serp_id |-> serp_id]
BrandMention(uuid, project_id, serp_id, brand_mentioned, competitor_mentioned, mentioned_competitor, brand_position, competitor_position, analysis_confidence) ==
    [table |-> "brand_mentions", uuid |-> uuid, project_id |-> project_id,
     serp_id |-> serp_id, brand_mentioned |-> brand_mentioned,
     competitor_mentioned |-> competitor_mentioned,
     mentioned_competitor |-> mentioned_competitor,
     brand_position |-> brand_position, competitor_position |-> competitor_position,
     analysis_confidence |-> analysis_confidence]

\* the rows of a set in primary-key order, as a query without ORDER BY
\* returns them here
RECURSIVE Rows(_)
Rows(S) ==
    IF S = {} THEN <<>>
    ELSE LET m == CHOOSE x \in S : \A y \in S : x.uuid <= y.uuid
         IN  <<m>> \o Rows(S \ {m})

Serps(S) == {x \in S : x.table = "word_serp"}
Companies(S) == {x \in S : x.table = "companies"}
Mentions(S) == {x \in S : x.table = "brand_mentions"}

\* llm.name.lower()
NameLower(name) ==
    CASE name = "OpenAI" -> "openai"
      [] name = "Gemini" -> "gemini"
      [] OTHER -> name

DirectProviders == {"openai", "gemini", "anthropic", "grok", "mistral", "perplexity"}
WorkerProviders == {"openai"}

\* ------------------------------------------------------------------------
\* Batch drivers.  The database calls are taken to succeed; the exceptions
\* of a pair come from the provider call and from the extraction call.

\* select(Word).where(status == 1 [, group_id == g]) x select(LLM).where(is_active == 1)
\* a word query that forgets the status filter
ActiveWords_any(g) ==
    Rows({w \in words : g # NoGroup => w.group_id = g})

ActiveWords(g) ==
    Rows({w \in words : w.status = 1 /\ (g # NoGroup => w.group_id = g)})
ActiveLLMs == Rows({l \in llms : l.is_active = 1})

RECURSIVE CrossFrom(_, _, _, _)
CrossFrom(ws, ls, i, j) ==
    IF i > Len(ws) THEN <<>>
    ELSE IF j > Len(ls) THEN CrossFrom(ws, ls, i + 1, 1)
    ELSE <<[word |-> ws[i], llm |-> ls[j]]>> \o CrossFrom(ws, ls, i, j + 1)

Cross(ws, ls) == CrossFrom(ws, ls, 1, 1)

NewRun(mode, g) ==
    [pc |-> "loop", mode |-> mode, group_id |-> g,
     pairs |-> Cross(ActiveWords(g), ActiveLLMs), idx |-> 1,
     processed_count |-> 0, llm_response |-> <<>>, word_serp |-> <<>>,
     flushed |-> {}, new |-> {},
     visits |-> <<>>, dispatched |-> {}, created |-> {}, raised |-> {}, got |-> {},
     failed |-> {}]

IdleRun == [NewRun("direct", NoGroup) EXCEPT !.pc = "idle", !.pairs = <<>>]

\* an invocation that returned before the next one began: its locals are gone
DoneRun == [IdleRun EXCEPT !.pc = "gone"]

\* what a query of the session sees: the committed rows and its own flushed
\* ones; the worker's session autoflushes, the API's does not
Visible(r) ==
    db \cup run[r].flushed \cup (IF run[r].mode = "worker" THEN run[r].new ELSE {})

\* every row there is: the committed ones and those of the open sessions
AllRows == db \cup UNION {run[r].flushed \cup run[r].new : r \in Runs}

\* a freshness test with the comparison turned round
FreshSerp_older(S, word, llm, t) ==
    \E s \in Serps(S) :
        /\ s.word_id = word.uuid
        /\ s.llm_id = llm.uuid
        /\ s.create_time < t - FreshDays

\* WordSerp.create_time > two_weeks_ago, for the pair
FreshSerp(S, word, llm, t) ==
    \E s \in Serps(S) :
        /\ s.word_id = word.uuid
        /\ s.llm_id = llm.uuid
        /\ s.create_time > t - FreshDays

CurPair(r) == run[r].pairs[run[r].idx]

\* `break` in place of `continue`
NextPair_break(rec) == [rec EXCEPT !.idx = Len(rec.pairs) + 1, !.pc = "loop"]

\* `continue` / `return False`: on to the next pair
NextPair(rec) == [rec EXCEPT !.idx = @ + 1, !.pc = "loop"]

\* whether the driver sends the provider request for this llm
Dispatches(mode, llm) ==
    IF mode = "direct"
    THEN NameLower(llm.name) \in DirectProviders /\ settings[NameLower(llm.name)]
    ELSE NameLower(llm.name) \in WorkerProviders

StartRun(r, mode, g, overlap) ==
    /\ run[r].pc = "idle"
    /\ r = started + 1
    /\ overlap \/ \A q \in Runs \ {r} : run[q].pc \in {"idle", "done", "gone"}
    /\ mode = "worker" => g = NoGroup
    /\ run' = [q \in Runs |->
                IF q = r THEN NewRun(mode, g)
                ELSE IF run[q].pc = "done" /\ ~overlap THEN DoneRun
                ELSE run[q]]
    /\ started' = started + 1

\* an invocation by the worker's loop or by an endpoint that returns nothing
\* of the run
Start(r, mode, g, overlap) ==
    /\ StartRun(r, mode, g, overlap)
    /\ UNCHANGED <<now, db, dataVars, anVars, exVars, svcVars, apiVars>>

\* the freshness check of one pair and, when it finds nothing fresh, the
\* choice of the provider
Check(r) ==
    /\ run[r].pc = "loop"
    /\ run[r].idx <= Len(run[r].pairs)
    /\ LET p == CurPair(r)
           seen == [run[r] EXCEPT !.visits = Append(@, p)]
       IN  run' = [run EXCEPT ![r] =
                IF FreshSerp(Visible(r), p.word, p.llm, now) THEN NextPair(seen)
                ELSE IF Dispatches(run[r].mode, p.llm)
                     THEN [seen EXCEPT !.pc = "fetch", !.dispatched = @ \cup {p}]
                     ELSE NextPair(seen)]
    /\ UNCHANGED <<now, db, started, dataVars, anVars, exVars, svcVars, apiVars>>

\* what the provider call of a pair may come to: a failure (non-200 status,
\* timeout), an empty text or a text
SerpText == <<"A", "\n", "b">>
ProviderAnswers ==
    {[ok |-> FALSE, text |-> <<>>], [ok |-> TRUE, text |-> <<>>],
     [ok |-> TRUE, text |-> SerpText]}

\* the answers of the extraction call in a batch run
ExtractAnswers ==
    {HttpAnswer(500, <<>>, "invalid", <<>>),
     HttpAnswer(200, <<"x", ",", " ", "x">>, "invalid", <<>>)}

\* db.commit()
Committed(rec) == db \cup rec.flushed \cup rec.new
AfterCommit(rec) == [rec EXCEPT !.flushed = {}, !.new = {}]

\* db.flush()
AfterFlush(rec) == [rec EXCEPT !.flushed = @ \cup rec.new, !.new = {}]

\* an insert that a fresh SerpResult of the pair, in any session, turns away
AddSerp_exclusive(rec, word_serp) ==
    IF \E s \in Serps(AllRows) :
           /\ s.word_id = word_serp.word_id
           /\ s.llm_id = word_serp.llm_id
           /\ s.create_time > word_serp.create_time - FreshDays
    THEN rec
    ELSE [rec EXCEPT !.flushed = @ \cup rec.new \cup {word_serp}, !.new = {}]

\* db.add(word_serp); db.flush()
AddSerp(rec, word_serp) == AfterFlush([rec EXCEPT !.new = @ \cup {word_serp}])

\* the provider's answer arrives; a text is saved as the pair's SerpResult
Fetch(r, answer) ==
    /\ run[r].pc = "fetch"
    /\ answer \in ProviderAnswers
    /\ LET p == CurPair(r)
           name == NameLower(p.llm.name)
           rec == run[r]
           word_serp == WordSerp(<<r, rec.idx>>, answer.text, p.llm.uuid, p.word.uuid, now)
       IN  /\ ~settings[name] => ~answer.ok
           /\ IF ~answer.ok
              THEN run' = [run EXCEPT ![r] =
                        IF rec.mode = "direct"
                        THEN NextPair([rec EXCEPT !.raised = @ \cup {p}])
                        ELSE NextPair(rec)]
              ELSE IF answer.text = <<>>
              THEN run' = [run EXCEPT ![r] = NextPair(rec)]
              ELSE run' = [run EXCEPT ![r] =
                        [AddSerp(rec, word_serp)
                            EXCEPT !.pc = "extract",
                                   !.llm_response = answer.text,
                                   !.word_serp = word_serp.uuid,
                                   !.created = @ \cup {word_serp.uuid},
                                   !.got = @ \cup {[pair |-> p, text |-> answer.text]}]]
    /\ UNCHANGED <<now, db, started, dataVars, anVars, exVars, svcVars, apiVars>>

\* the `for company_name in companies` loop: a name is added unless the
\* session's query finds it for this SerpResult
RECURSIVE SaveCompanies(_, _, _, _, _, _)
SaveCompanies(companies, k, serp_id, seen, autoflush, added) ==
    IF k > Len(companies) THEN added
    ELSE IF \E c \in Companies(seen \cup (IF autoflush THEN added ELSE {})) :
                c.name = companies[k] /\ c.serp_id = serp_id
         THEN SaveCompanies(companies, k + 1, serp_id, seen, autoflush, added)
         ELSE SaveCompanies(companies, k + 1, serp_id, seen, autoflush,
                            added \cup {Company(<<serp_id, "company", k>>, companies[k], serp_id)})

ProjectsOf(group_id) == Rows({bp \in projects : bp.word_group_id = group_id})
CompetitorsOf(project) == Rows({c \in competitors : c.project_id = project.uuid})

Flag(b) == IF b THEN 1 ELSE 0

\* main.analyze_brand_mentions_for_word_direct, for one project: the rows
\* it adds, in order, without their primary keys; positions are not set and
\* the confidence is the column default
DirectProjectMentions(brand_project, serp_id, llm_response) ==
    LET competitors_list == CompetitorsOf(brand_project)
        brand_mentioned == direct_brand_mentioned(brand_project.brand_name, llm_response)
    IN  IF competitors_list = <<>>
        THEN <<BrandMention(0, brand_project.uuid, serp_id, Flag(brand_mentioned), 0,
                            NoneStr, NoPos, NoPos, 100)>>
        ELSE [i \in 1..Len(competitors_list) |->
                BrandMention(0, brand_project.uuid, serp_id, Flag(brand_mentioned),
                             Flag(StrIn(Lower(competitors_list[i].name), Lower(llm_response))),
                             competitors_list[i].name, NoPos, NoPos, 100)]

RECURSIVE DirectMentions(_, _, _, _)
DirectMentions(brand_projects, k, serp_id, llm_response) ==
    IF k > Len(brand_projects) THEN <<>>
    ELSE DirectProjectMentions(brand_projects[k], serp_id, llm_response)
         \o DirectMentions(brand_projects, k + 1, serp_id, llm_response)

analyze_brand_mentions_for_word_direct(word, serp_id, llm_response) ==
    DirectMentions(ProjectsOf(word.group_id), 1, serp_id, llm_response)

\* LLMWorker.analyze_brand_mentions_for_word: one row, for the first project
\* of the word's group
analyze_brand_mentions_for_word(word, serp_id, llm_response) ==
    IF word.group_id = NoGroup \/ ProjectsOf(word.group_id) = <<>> THEN <<>>
    ELSE LET brand_project == ProjectsOf(word.group_id)[1]
             cs == CompetitorsOf(brand_project)
             competitor_names == [i \in 1..Len(cs) |-> cs[i].name]
             a == analyze_brand_mentions_in_response(
                      llm_response, <<brand_project.brand_name>>, competitor_names)
         IN  <<BrandMention(0, brand_project.uuid, serp_id, Flag(a.brand_mentioned),
                            Flag(a.competitor_mentioned), a.mentioned_competitor,
                            a.brand_position, a.competitor_position, a.confidence)>>

\* the primary keys (uuid4 defaults) of the rows of one SerpResult
WithKeys(rows, serp_id) ==
    {[rows[i] EXCEPT !.uuid = <<serp_id, "mention", i>>] : i \in 1..Len(rows)}

\* a driver that never commits inside the loop
CommitDue_never(processed_count) == FALSE

\* if processed_count % 10 == 0
CommitDue(processed_count) == processed_count % CommitEvery = 0

\* the rest of a pair after its SerpResult is flushed: the extraction call,
\* the companies, the brand mentions, the count and the commit.  The value
\* is the invocation and the committed rows after it.
ProcessPair(r, answer) ==
    LET p == CurPair(r)
        \* the pairs whose extraction request failed are kept in `failed`
        rec == [run[r] EXCEPT !.failed = IF answer.status = 200 THEN @ ELSE @ \cup {p}]
        direct == rec.mode = "direct"
        res == IF direct
               THEN extract_companies_from_response_direct(rec.llm_response, answer)
               ELSE extract_companies_from_response(rec.llm_response, answer)
        saved == SaveCompanies(res.companies, 1, rec.word_serp, db \cup rec.flushed,
                               ~direct, {})
        mentions == IF direct
                    THEN IF p.word.group_id # NoGroup
                         THEN analyze_brand_mentions_for_word_direct(
                                  p.word, rec.word_serp, rec.llm_response)
                         ELSE <<>>
                    ELSE analyze_brand_mentions_for_word(
                             p.word, rec.word_serp, rec.llm_response)
        added == [rec EXCEPT !.new = @ \cup saved \cup WithKeys(mentions, rec.word_serp),
                             !.processed_count = @ + 1]
        commits == ~direct \/ CommitDue(added.processed_count)
    IN  IF res.raised
        THEN \* except Exception: log and continue; the session is left as it is
             [rec |-> NextPair([rec EXCEPT !.raised = @ \cup {p}]), db |-> db]
        ELSE IF commits
        THEN [rec |-> NextPair(AfterCommit(added)), db |-> Committed(added)]
        ELSE [rec |-> NextPair(added), db |-> db]

Extract(r, answer) ==
    /\ run[r].pc = "extract"
    /\ answer \in ExtractAnswers
    /\ run' = [run EXCEPT ![r] = ProcessPair(r, answer).rec]
    /\ db' = ProcessPair(r, answer).db
    /\ UNCHANGED <<now, started, dataVars, anVars, exVars, svcVars, apiVars>>

\* after the last pair: the final commit of the direct update; the worker
\* has committed pair by pair
EndRun(r) ==
    /\ run[r].pc = "loop"
    /\ run[r].idx > Len(run[r].pairs)
    /\ db' = IF run[r].mode = "direct" THEN Committed(run[r]) ELSE db
    /\ run' = [run EXCEPT ![r] = [AfterCommit(run[r]) EXCEPT !.pc = "done"]]
    /\ UNCHANGED <<now, started, dataVars, anVars, exVars, svcVars, apiVars>>

Tick(d) ==
    /\ d \in TickSteps
    /\ now + d <= MaxTime
    /\ now' = now + d
    /\ UNCHANGED <<db, run, started, dataVars, anVars, exVars, svcVars, apiVars>>

\* the settings in which the OpenAI key and the Gemini key are configured
\* as S tells; the keys of the other providers are configured
KeyConfigs(S) ==
    {[n \in DirectProviders |->
        IF n = "openai" THEN c[1] ELSE IF n = "gemini" THEN c[2] ELSE TRUE] : c \in S}

\* deployments with the key of one of the two providers
OneKey == {<<TRUE, FALSE>>, <<FALSE, TRUE>>}
AnyKeys == BOOLEAN \X BOOLEAN

Tables ==
    /\ word_groups = {WordGroup(1, <<"g">>, 1)}
    /\ words = {Word(1, 1, 1), Word(2, 1, NoGroup), Word(3, 0, 1)}
    /\ llms = {LLM(1, "OpenAI", 1), LLM(2, "gemini", 1), LLM(3, "llama", 1),
               LLM(4, "mistral", 0)}
    /\ projects = {BrandProject(1, <<"a">>, 1), BrandProject(2, <<"b">>, 1)}
    /\ competitors = {Competitor(1, <<"B">>, 1), Competitor(2, <<"c">>, 1)}

InitData ==
    /\ settings \in KeyConfigs(OneKey)
    /\ Tables

NoCalls ==
    /\ an_in = Idle /\ an_out = Idle
    /\ ex_in = Idle /\ ex_out = Idle
    /\ NoService
    /\ api = NoApiCall

Init ==
    /\ InitData
    /\ now = 0
    /\ db = {}
    /\ run = [r \in Runs |-> IdleRun]
    /\ started = 0
    /\ NoCalls

Groups == {NoGroup, 1}
Modes == {"direct", "worker"}

Step(r) ==
    \/ Check(r)
    \/ \E answer \in ProviderAnswers : Fetch(r, answer)
    \/ \E answer \in ExtractAnswers : Extract(r, answer)
    \/ EndRun(r)

Next ==
    \/ \E r \in Runs, mode \in Modes, g \in Groups : Start(r, mode, g, FALSE)
    \/ \E r \in Runs : Step(r)
    \/ \E d \in TickSteps : Tick(d)

Spec == Init /\ [][Next]_vars

\* ------------------------------------------------------------------------
\* One batch run, which goes on until it returns

\* the database a run may find: empty, or holding SerpResults of an earlier
\* run for the first keyword
EarlierRows ==
    {{}, {WordSerp(<<0, 1>>, SerpText, 1, 1, 0)},
     {WordSerp(<<0, 1>>, SerpText, 1, 1, 0), WordSerp(<<0, 2>>, SerpText, 2, 1, 0)}}

InitOneRun ==
    /\ settings \in KeyConfigs(AnyKeys)
    /\ Tables
    /\ now \in {0, FreshDays}
    /\ db \in EarlierRows
    /\ run = [r \in Runs |-> IdleRun]
    /\ started = MaxRuns - 1
    /\ NoCalls

\* an invocation, once called, runs on: each of its calls returns or raises
\* (the HTTP calls carry a timeout)
\* The extraction step changes run[r] whenever the invocation stands at it,
\* so ENABLED <<step>>_vars is run[r].pc = "extract" and weak fairness of the
\* step is the formula below.
ExtractFairness(r) ==
    \/ []<>(run[r].pc # "extract")
    \/ []<><<\E answer \in ExtractAnswers : Extract(r, answer)>>_vars

Fairness ==
    \A r \in Runs :
        /\ WF_vars(Check(r))
        /\ WF_vars(\E answer \in ProviderAnswers : Fetch(r, answer))
        /\ ExtractFairness(r)
        /\ WF_vars(EndRun(r))

SpecOneRun == InitOneRun /\ [][Next]_vars /\ Fairness

\* ------------------------------------------------------------------------
\* Two invocations of the batch driver at the same time, on one keyword and
\* one provider

InitConc ==
    /\ settings = [n \in DirectProviders |-> TRUE]
    /\ word_groups = {WordGroup(1, <<"g">>, 1)}
    /\ words = {Word(1, 1, 1)}
    /\ llms = {LLM(1, "OpenAI", 1)}
    /\ projects = {BrandProject(1, <<"a">>, 1)}
    /\ competitors = {}
    /\ now = 0
    /\ db = {}
    /\ run = [r \in Runs |-> IdleRun]
    /\ started = 0
    /\ NoCalls

NextConc ==
    \/ \E r \in Runs, mode \in Modes, g \in Groups : Start(r, mode, g, TRUE)
    \/ \E r \in Runs : Step(r)
    \/ \E d \in TickSteps : Tick(d)

SpecConc == InitConc /\ [][NextConc]_vars

\* ------------------------------------------------------------------------
\* Calls of the mention analyzer

NoBatch ==
    /\ settings = [n \in DirectProviders |-> FALSE]
    /\ words = {} /\ llms = {} /\ projects = {} /\ competitors = {}
    /\ word_groups = {}
    /\ api = NoApiCall
    /\ now = 0
    /\ db = {}
    /\ run = [r \in Runs |-> IdleRun]
    /\ started = 0

Texts == SeqsUpTo(Chars, MaxTextLen)
BrandNames == SeqsUpTo(Chars, MaxBrandLen)
\* a competitor's name is stored stripped
CompetitorNames == {n \in SeqsUpTo(Chars, MaxCompLen) : Strip(n) = n}

InitAnalyzer ==
    /\ NoBatch
    /\ an_in \in [text : Texts, brand : BrandNames,
                  competitors : SeqsUpTo(CompetitorNames, MaxComps)]
    /\ an_out = Idle
    /\ ex_in = Idle /\ ex_out = Idle
    /\ NoService

\* LLMWorker.analyze_brand_mentions_in_response, called with the one brand
\* of a project as analyze_brand_mentions_for_word calls it
AnalyzeWorker ==
    /\ an_in # Idle
    /\ an_out = Idle
    /\ an_out' = [fn |-> "worker",
                  result |-> analyze_brand_mentions_in_response(
                                 an_in.text, <<an_in.brand>>, an_in.competitors)]
    /\ UNCHANGED <<an_in, batchVars, dataVars, exVars, svcVars, apiVars>>

\* the brand test of main.analyze_brand_mentions_for_word_direct
AnalyzeDirect ==
    /\ an_in # Idle
    /\ an_out = Idle
    /\ an_out' = [fn |-> "direct",
                  result |-> [brand_mentioned |->
                                 direct_brand_mentioned(an_in.brand, an_in.text)]]
    /\ UNCHANGED <<an_in, batchVars, dataVars, exVars, svcVars, apiVars>>

NextAnalyzer == AnalyzeWorker \/ AnalyzeDirect

SpecAnalyzer == InitAnalyzer /\ [][NextAnalyzer]_vars

\* ------------------------------------------------------------------------
\* Calls of the company extractors

ExTexts ==
    {<<>>, <<"x">>,
     <<"1", ".", " ", "A", "c", "m", "e", " ", "-", " ", "b", "r", "e", "n", "d">>,
     <<"b", "r", "e", "n", "d", " ", "s", "e", "r", "v", "i", "s">>,
     <<"A", ".", " ", "B", "c", "d", " ", "-", " ", "b", "r", "e", "n", "d">>}

\* n items of a comma-separated list
RECURSIVE Joined(_, _)
Joined(item, n) == IF n <= 1 THEN item ELSE item \o <<",">> \o Joined(item, n - 1)

ExContents ==
    {<<>>, <<" ">>, <<"x">>, <<"A", "c", "m", "e">>,
     <<"A", "c", "m", "e", ",", " ", "x", "y", ",", ",", "A", "c", "m", "e">>,
     Joined(<<"A", "c", "m", "e">>, MaxCompanies + 1)}

\* what the extraction request may come to
ExAnswers ==
    {HttpAnswer(0, <<>>, "invalid", <<>>), HttpAnswer(500, <<>>, "invalid", <<>>)}
    \cup {HttpAnswer(200, c, "invalid", <<>>) : c \in ExContents}
    \cup {HttpAnswer(200, <<"[", "]">>, "list", <<>>),
          HttpAnswer(200, <<"[", "x", "]">>, "list", <<<<"x">>>>),
          HttpAnswer(200, <<"{", "}">>, "other", <<>>)}

Extractors == {"service", "direct", "worker"}

InitExtractor ==
    /\ NoBatch
    /\ an_in = Idle /\ an_out = Idle
    /\ ex_in \in [fn : Extractors, text : ExTexts, available : BOOLEAN, answer : ExAnswers]
    /\ ex_out = Idle
    /\ NoService

\* what make_request_with_retry hands to extract_companies_from_text: the
\* content of a successful request, or an error response
ServiceResponse(answer) ==
    IF answer.status = 200 THEN [error |-> FALSE, content |-> answer.content]
    ELSE [error |-> TRUE, content |-> <<>>]

ExtractService ==
    /\ ex_in # Idle /\ ex_in.fn = "service"
    /\ ex_out = Idle
    /\ \E companies \in extract_companies_from_text(
                            ex_in.text, ex_in.available, ServiceResponse(ex_in.answer)) :
           ex_out' = Returned(companies)
    /\ UNCHANGED <<ex_in, batchVars, dataVars, anVars, svcVars, apiVars>>

ExtractDirect ==
    /\ ex_in # Idle /\ ex_in.fn = "direct"
    /\ ex_out = Idle
    /\ ex_out' = extract_companies_from_response_direct(ex_in.text, ex_in.answer)
    /\ UNCHANGED <<ex_in, batchVars, dataVars, anVars, svcVars, apiVars>>

ExtractWorker ==
    /\ ex_in # Idle /\ ex_in.fn = "worker"
    /\ ex_out = Idle
    /\ ex_out' = extract_companies_from_response(ex_in.text, ex_in.answer)
    /\ UNCHANGED <<ex_in, batchVars, dataVars, anVars, svcVars, apiVars>>

NextExtractor == ExtractService \/ ExtractDirect \/ ExtractWorker

SpecExtractor == InitExtractor /\ [][NextExtractor]_vars

\* ------------------------------------------------------------------------
\* LLMService.make_request_with_retry: the cache and the retry loop

cache_ttl == 3600
max_retries == 3
retry_delay == 1

\* Bounds of the service model
MaxRequests == 3
MaxClock == 3600
ClockSteps == {1800}

ServiceProviders == {"openai", "gemini"}
Prompts == {<<"p">>, <<"q">>}
\* system_prompt and max_tokens (0 for None) of a request
RequestOptions == {<<NoneStr, 0>>, <<<<"s">>, 200>>}
ProviderContents == {<<"x">>, <<"y">>}

\* the requests made: temperature and model are those of get_serp_data
Requests ==
    {LLMRequest(prompt, provider, NoneStr, o[2], <<"0.7">>, o[1]) :
        prompt \in Prompts, provider \in ServiceProviders, o \in RequestOptions}

\* str(None) and the other values as an f-string prints them
Str(v) == IF v = NoneStr THEN <<"N", "o", "n", "e">> ELSE v

\* a key that tells requests with different system prompts apart
CacheKey_full(request) ==
    <<request.provider>> \o <<":">> \o request.prompt \o <<":">> \o Str(request.model)
        \o <<":">> \o request.temperature \o <<":">> \o Str(request.system_prompt)

\* LLMService._get_cache_key: the string that is hashed
CacheKey(request) ==
    <<request.provider>> \o <<":">> \o request.prompt \o <<":">> \o Str(request.model)
        \o <<":">> \o request.temperature

LLMResponse(content, model, error, cached) ==
    [content |-> content, model |-> model, error |-> error, cached |-> cached]

\* LLMService._get_from_cache: the cached response or None (Idle), and the
\* cache after the lookup
CacheLookup(cache_key) ==
    IF cache_key \in DOMAIN cache
    THEN IF clock - cache[cache_key].timestamp < cache_ttl
         THEN [found |-> [cache[cache_key].data EXCEPT !.cached = TRUE], cache |-> cache]
         ELSE [found |-> Idle,
               cache |-> [k \in DOMAIN cache \ {cache_key} |-> cache[k]]]
    ELSE [found |-> Idle, cache |-> cache]

\* LLMService._save_to_cache; the entry keeps the request it answers, which
\* the code does not store
SaveToCache(cache_key, response, request) ==
    IF Failed(response) THEN cache
    ELSE [k \in DOMAIN cache \cup {cache_key} |->
            IF k = cache_key
            THEN [data |-> response, timestamp |-> clock, request |-> request]
            ELSE cache[k]]

\* a delay that does not grow
Backoff_flat(attempt) == retry_delay

\* retry_delay * (2 ** attempt)
Backoff(attempt) == retry_delay * 2 ^ attempt

\* the call up to its first provider call: the cache lookup and the test of
\* the provider
MakeRequest(request) ==
    /\ rq.pc \in {"idle", "done"}
    /\ rq.n < MaxRequests
    /\ request \in Requests
    /\ LET look == CacheLookup(CacheKey(request))
           started_call == [IdleCall EXCEPT !.request = request, !.n = rq.n + 1]
       IN  /\ cache' = look.cache
           /\ IF look.found # Idle
              THEN rq' = [started_call EXCEPT !.pc = "done"] /\ rs' = look.found
              ELSE IF ~settings[request.provider]
              THEN /\ rq' = [started_call EXCEPT !.pc = "done"]
                   /\ rs' = LLMResponse(<<>>, "unavailable", NotConfigured, FALSE)
              ELSE /\ rq' = [started_call EXCEPT !.pc = "call", !.calls = 1]
                   /\ rs' = rs
    /\ UNCHANGED <<clock, batchVars, dataVars, anVars, exVars, apiVars>>

\* provider.make_request returns a response or raises
ProviderReturns(content) ==
    /\ rq.pc = "call"
    /\ content \in ProviderContents
    /\ LET response == LLMResponse(content, "gpt", NoError, FALSE)
       IN  /\ cache' = SaveToCache(CacheKey(rq.request), response, rq.request)
           /\ rs' = response
           /\ rq' = [rq EXCEPT !.pc = "done"]
    /\ UNCHANGED <<clock, batchVars, dataVars, anVars, exVars, apiVars>>

\* a loop that keeps the message of its first failure
LastError_first(last_error, e) == IF last_error = NoError THEN e ELSE last_error

\* last_error = str(e)
LastError(last_error, e) == e

\* a loop that stores the error response of its last attempt
ProviderRaises_cached(e) ==
    /\ rq.pc = "call"
    /\ e \in ErrorMessages
    /\ LET failed == [rq EXCEPT !.failures = @ + 1, !.last_error = e,
                                !.errors = Append(@, e)]
           response == LLMResponse(<<>>, "error", e, FALSE)
       IN  IF rq.attempt < max_retries - 1
           THEN rq' = [failed EXCEPT !.pc = "sleep"] /\ rs' = rs /\ cache' = cache
           ELSE /\ rq' = [failed EXCEPT !.pc = "done"]
                /\ rs' = response
                /\ cache' = [k \in DOMAIN cache \cup {CacheKey(rq.request)} |->
                                IF k = CacheKey(rq.request)
                                THEN [data |-> response, timestamp |-> clock,
                                      request |-> rq.request]
                                ELSE cache[k]]
    /\ UNCHANGED <<clock, batchVars, dataVars, anVars, exVars, apiVars>>

\* provider.make_request raises an exception with the message e; after the
\* last attempt the loop is left and the error response returned
ProviderRaises(e) ==
    /\ rq.pc = "call"
    /\ e \in ErrorMessages
    /\ LET failed == [rq EXCEPT !.failures = @ + 1,
                                !.last_error = LastError(@, e),
                                !.errors = Append(@, e)]
       IN  IF rq.attempt < max_retries - 1
           THEN rq' = [failed EXCEPT !.pc = "sleep"] /\ rs' = rs
           ELSE /\ rq' = [failed EXCEPT !.pc = "done"]
                /\ rs' = LLMResponse(<<>>, "error", failed.last_error, FALSE)
    /\ UNCHANGED <<clock, cache, batchVars, dataVars, anVars, exVars, apiVars>>

\* asyncio.sleep is over and the next attempt calls the provider
Retry ==
    /\ rq.pc = "sleep"
    /\ clock' = clock + Backoff(rq.attempt)
    /\ rq' = [rq EXCEPT !.pc = "call", !.attempt = @ + 1, !.calls = @ + 1,
                        !.sleeps = Append(@, Backoff(rq.attempt))]
    /\ UNCHANGED <<cache, rs, batchVars, dataVars, anVars, exVars, apiVars>>

ClockTick(d) ==
    /\ d \in ClockSteps
    /\ rq.pc # "sleep"
    /\ clock + d <= MaxClock
    /\ clock' = clock + d
    /\ UNCHANGED <<cache, rq, rs, batchVars, dataVars, anVars, exVars, apiVars>>

InitService ==
    /\ settings \in KeyConfigs(OneKey)
    /\ words = {} /\ llms = {} /\ projects = {} /\ competitors = {}
    /\ word_groups = {}
    /\ api = NoApiCall
    /\ now = 0
    /\ db = {}
    /\ run = [r \in Runs |-> IdleRun]
    /\ started = 0
    /\ an_in = Idle /\ an_out = Idle
    /\ ex_in = Idle /\ ex_out = Idle
    /\ NoService

NextService ==
    \/ \E request \in Requests : MakeRequest(request)
    \/ \E content \in ProviderContents : ProviderReturns(content)
    \/ \E e \in ErrorMessages : ProviderRaises(e)
    \/ Retry
    \/ \E d \in ClockSteps : ClockTick(d)

SpecService == InitService /\ [][NextService]_vars

\* ------------------------------------------------------------------------
\* The API (main.py).  Every call is made by an authenticated user; a
\* handler runs from its query to its commit in one step.

\* the API calls and batch invocations of a behaviour
MaxOps == 2
\* the user who calls; user 2 owns rows too
Callers == {1}
Ids == 1..3
GroupNames == {<<"m">>}
NewNames == {<<"n">>}

\* Optional[int] = None of WordUpdate.status
NoStatus == -1

\* uuid.uuid4: a value no row carries yet
NewId == 3 + api.n

\* another call or invocation may begin
MayBegin == api.n + started < MaxOps

\* the response of a call: its HTTP status and its body
Respond(call, status, body) ==
    [api EXCEPT !.n = @ + 1, !.call = call, !.status = status, !.body = body]

\* select(WordGroup).where(uuid == group_id, user_id == current_user.uuid)
OwnGroup(u, group_id) == {g \in word_groups : g.uuid = group_id /\ g.user_id = u}

\* the foreign key of a row names no row of word_groups: the commit fails
GroupMissing(group_id) ==
    group_id # NoGroup /\ \A g \in word_groups : g.uuid # group_id

create_word_group(u, name) ==
    /\ MayBegin
    /\ LET new_group == WordGroup(NewId, name, u)
       IN  /\ word_groups' = word_groups \cup {new_group}
           /\ api' = Respond([fn |-> "create_word_group", user |-> u, name |-> name],
                             200, new_group)
    /\ UNCHANGED <<batchVars, dataVars, anVars, exVars, svcVars>>

\* a rename that writes the name to every group of the caller
Renamed_all(u, group, name) ==
    {IF g.user_id = u THEN [g EXCEPT !.name = name] ELSE g : g \in word_groups}

\* group.name = group_data.name
Renamed(u, group, name) ==
    {IF g \in group THEN [g EXCEPT !.name = name] ELSE g : g \in word_groups}

update_word_group(u, group_id, name) ==
    /\ MayBegin
    /\ LET group == OwnGroup(u, group_id)
           call == [fn |-> "update_word_group", user |-> u, id |-> group_id, name |-> name]
       IN  IF group = {}
           THEN /\ api' = Respond(call, 404, Idle)
                /\ UNCHANGED word_groups
           ELSE /\ word_groups' = Renamed(u, group, name)
                /\ api' = Respond(call, 200,
                                  CHOOSE g \in word_groups' : g.uuid = group_id)
    /\ UNCHANGED <<batchVars, dataVars, anVars, exVars, svcVars>>

\* ondelete="SET NULL" of words.group_id and brand_projects.word_group_id
Ungrouped(rows, field, group_id) ==
    {IF x[field] = group_id THEN [x EXCEPT ![field] = NoGroup] ELSE x : x \in rows}

delete_word_group(u, group_id) ==
    /\ MayBegin
    /\ LET group == OwnGroup(u, group_id)
           call == [fn |-> "delete_word_group", user |-> u, id |-> group_id]
       IN  IF group = {}
           THEN /\ api' = Respond(call, 404, Idle)
                /\ UNCHANGED <<word_groups, words, projects>>
           ELSE /\ word_groups' = word_groups \ group
                /\ words' = Ungrouped(words, "group_id", group_id)
                /\ projects' = Ungrouped(projects, "word_group_id", group_id)
                /\ api' = Respond(call, 200, Idle)
    /\ UNCHANGED <<batchVars, settings, llms, competitors, anVars, exVars, svcVars>>

create_word(u, name, group_id) ==
    /\ MayBegin
    /\ LET new_word == [Word(NewId, 1, group_id) EXCEPT !.name = name]
           call == [fn |-> "create_word", user |-> u, name |-> name, group_id |-> group_id]
       IN  IF GroupMissing(group_id)
           THEN /\ api' = Respond(call, 500, Idle)
                /\ UNCHANGED words
           ELSE /\ words' = words \cup {new_word}
                /\ api' = Respond(call, 200, new_word)
    /\ UNCHANGED <<batchVars, settings, llms, projects, competitors, word_groups,
                   anVars, exVars, svcVars>>

\* the bodies of PUT /api/words/{id} that are tried
WordUpdates ==
    {[name |-> NoneStr, group_id |-> NoGroup, status |-> 0],
     [name |-> NoneStr, group_id |-> NoGroup, status |-> 1],
     [name |-> <<"n">>, group_id |-> 2, status |-> NoStatus],
     [name |-> NoneStr, group_id |-> 3, status |-> NoStatus]}

\* the fields of word_data that are not None, written to the word
Updated(word, word_data) ==
    [word EXCEPT
        !.name = IF word_data.name # NoneStr THEN word_data.name ELSE @,
        !.group_id = IF word_data.group_id # NoGroup THEN word_data.group_id ELSE @,
        !.status = IF word_data.status # NoStatus THEN word_data.status ELSE @]

update_word(u, word_id, word_data) ==
    /\ MayBegin
    /\ LET word == {w \in words : w.uuid = word_id}
           call == [fn |-> "update_word", user |-> u, id |-> word_id, data |-> word_data]
       IN  IF word = {}
           THEN /\ api' = Respond(call, 404, Idle)
                /\ UNCHANGED words
           ELSE IF GroupMissing(word_data.group_id)
           THEN /\ api' = Respond(call, 500, Idle)
                /\ UNCHANGED words
           ELSE /\ words' = {IF w \in word THEN Updated(w, word_data) ELSE w : w \in words}
                /\ api' = Respond(call, 200, CHOOSE w \in words' : w.uuid = word_id)
    /\ UNCHANGED <<batchVars, settings, llms, projects, competitors, word_groups,
                   anVars, exVars, svcVars>>

delete_word(u, word_id) ==
    /\ MayBegin
    /\ LET word == {w \in words : w.uuid = word_id}
           call == [fn |-> "delete_word", user |-> u, id |-> word_id]
       IN  IF word = {}
           THEN /\ api' = Respond(call, 404, Idle)
                /\ UNCHANGED words
           ELSE /\ words' = {IF w \in word THEN [w EXCEPT !.status = 0] ELSE w : w \in words}
                /\ api' = Respond(call, 200, Idle)
    /\ UNCHANGED <<batchVars, settings, llms, projects, competitors, word_groups,
                   anVars, exVars, svcVars>>

\* GET /api/analytics/word/{word_id}: the rows found, or an error body
get_word_analytics(u, word_id) ==
    /\ MayBegin
    /\ LET word == {w \in words : w.uuid = word_id}
           serp_list == {s \in Serps(db) : s.word_id = word_id}
           companies_list == {c \in Companies(db) : \E s \in serp_list : c.serp_id = s.uuid}
           call == [fn |-> "get_word_analytics", user |-> u, id |-> word_id]
       IN  IF word = {}
           THEN api' = Respond(call, 200, [error |-> "Word not found"])
           ELSE api' = Respond(call, 200,
                               [word |-> CHOOSE w \in word : TRUE,
                                serp_results |-> Cardinality(serp_list),
                                companies |-> Cardinality(companies_list)])
    /\ UNCHANGED <<batchVars, dataVars, word_groups, anVars, exVars, svcVars>>

\* GET /api/analytics/group/{group_id}
get_group_analytics(u, group_id) ==
    /\ MayBegin
    /\ LET group == {g \in word_groups : g.uuid = group_id}
           words_list == {w \in words : w.group_id = group_id}
           call == [fn |-> "get_group_analytics", user |-> u, id |-> group_id]
       IN  IF group = {}
           THEN api' = Respond(call, 200, [error |-> "Group not found"])
           ELSE api' = Respond(call, 200,
                               [group |-> CHOOSE g \in group : TRUE,
                                words_count |-> Cardinality(words_list)])
    /\ UNCHANGED <<batchVars, dataVars, word_groups, anVars, exVars, svcVars>>

\* a / b of two counts, b > 0, in lowest terms
RECURSIVE GCD(_, _)
GCD(a, b) == IF b = 0 THEN a ELSE GCD(b, a % b)

Frac(n, d) == [num |-> n \div GCD(n, d), den |-> d \div GCD(n, d)]

\* (part / total * 100) if total > 0 else 0
Percentage(part, total) ==
    IF total > 0
    THEN LET q == Frac(part, total) IN Frac(q.num * 100, q.den)
    ELSE Frac(0, 1)

MentionsOf(project_id) == {m \in Mentions(db) : m.project_id = project_id}

\* a count that takes every mention for a brand mention
BrandCount_all(mentions) == Cardinality(mentions)

\* sum(1 for m in mentions if m.brand_mentioned == 1)
BrandCount(mentions) == Cardinality({m \in mentions : m.brand_mentioned = 1})

CompetitorCount(mentions) == Cardinality({m \in mentions : m.competitor_mentioned = 1})

\* a lookup by id alone
OwnProject_any(u, project_id) == {bp \in projects : bp.uuid = project_id}

\* select(BrandProject).where(uuid == project_id).where(user_id == current_user.uuid)
OwnProject(u, project_id) == {bp \in projects : bp.uuid = project_id /\ bp.user_id = u}

RECURSIVE CompetitorNamesOf(_, _)
CompetitorNamesOf(rows, k) ==
    IF k > Len(rows) THEN <<>> ELSE <<rows[k].name>> \o CompetitorNamesOf(rows, k + 1)

\* the dict handed to BrandProjectResponse.model_validate
ProjectBody(project) ==
    [project |-> project, competitors |-> CompetitorNamesOf(CompetitorsOf(project), 1)]

\* GET /api/brand-projects/{project_id}
get_brand_project(u, project_id) ==
    /\ MayBegin
    /\ LET project == OwnProject(u, project_id)
           call == [fn |-> "get_brand_project", user |-> u, id |-> project_id]
       IN  IF project = {}
           THEN api' = Respond(call, 404, Idle)
           ELSE api' = Respond(call, 200, ProjectBody(CHOOSE bp \in project : TRUE))
    /\ UNCHANGED <<batchVars, dataVars, word_groups, anVars, exVars, svcVars>>

\* GET /api/brand-projects/{project_id}/analytics: the HTTPException of the
\* missing project is caught by `except Exception` and answered with 500
get_brand_analytics(u, project_id) ==
    /\ MayBegin
    /\ LET project == OwnProject(u, project_id)
           mentions_list == MentionsOf(project_id)
           total_queries == Cardinality(mentions_list)
           brand_mentions == BrandCount(mentions_list)
           competitor_mentions == CompetitorCount(mentions_list)
           call == [fn |-> "get_brand_analytics", user |-> u, id |-> project_id]
       IN  IF project = {}
           THEN api' = Respond(call, 500, Idle)
           ELSE api' = Respond(call, 200,
                    [total_queries |-> total_queries,
                     brand_mentions |-> brand_mentions,
                     competitor_mentions |-> competitor_mentions,
                     brand_visibility_percentage |->
                         Percentage(brand_mentions, total_queries),
                     competitor_visibility_percentage |->
                         Percentage(competitor_mentions, total_queries)])
    /\ UNCHANGED <<batchVars, dataVars, word_groups, anVars, exVars, svcVars>>

\* a delete that removes the row
SoftDeleted_removed(project) == projects \ project

\* project.status = 0
SoftDeleted(project) ==
    {IF bp \in project THEN [bp EXCEPT !.status = 0] ELSE bp : bp \in projects}

\* DELETE /api/brand-projects/{project_id}
delete_brand_project(u, project_id) ==
    /\ MayBegin
    /\ LET project == OwnProject(u, project_id)
           call == [fn |-> "delete_brand_project", user |-> u, id |-> project_id]
       IN  IF project = {}
           THEN /\ api' = Respond(call, 404, Idle)
                /\ UNCHANGED projects
           ELSE /\ projects' = SoftDeleted(project)
                /\ api' = Respond(call, 200, Idle)
    /\ UNCHANGED <<batchVars, settings, words, llms, competitors, word_groups,
                   anVars, exVars, svcVars>>

\* schemas.BrandProjectCreate and schemas.BrandProjectUpdate: the fields a
\* request body is parsed into
BrandProjectCreate(name, brand_name, competitor_names) ==
    [name |-> name, brand_name |-> brand_name, brand_description |-> <<"d">>,
     keywords_count |-> 50, competitors |-> competitor_names]

BrandProjectUpdate(name, brand_name) ==
    [name |-> name, brand_name |-> brand_name, brand_description |-> NoneStr,
     keywords_count |-> 0]

\* the JSON body of a PUT request: fields of the schema and, sent or not, a
\* list of competitors
UpdateBody(name, brand_name, competitors_sent, competitor_names) ==
    [name |-> name, brand_name |-> brand_name, competitors_sent |-> competitors_sent,
     competitors |-> competitor_names]

\* the body as the handler receives it: pydantic keeps the fields the model
\* class declares and ignores the others
ParseUpdate(body) == BrandProjectUpdate(body.name, body.brand_name)

\* reading an attribute the model class does not declare raises AttributeError
HasAttr(data, attr) == attr \in DOMAIN data

\* the Competitor rows of the names, in the order of the list
NewCompetitors(names, project_id, keep_blank) ==
    {Competitor(10 * project_id + k, Strip(names[k]), project_id) :
        k \in {i \in 1..Len(names) : keep_blank \/ Strip(names[i]) # <<>>}}

\* POST /api/brand-projects.  The handler's first statement reads
\* project_data.word_group_id; every exception, an HTTPException too, is
\* answered with 500 after a rollback.
create_brand_project(u, project_data) ==
    /\ MayBegin
    /\ LET call == [fn |-> "create_brand_project", user |-> u, data |-> project_data]
       IN  IF ~HasAttr(project_data, "word_group_id")
           THEN /\ api' = Respond(call, 500, Idle)
                /\ UNCHANGED <<projects, competitors>>
           ELSE IF GroupMissing(project_data.word_group_id)
           THEN /\ api' = Respond(call, 500, Idle)
                /\ UNCHANGED <<projects, competitors>>
           ELSE LET brand_project ==
                        [BrandProject(NewId, project_data.brand_name,
                                      project_data.word_group_id)
                            EXCEPT !.name = project_data.name, !.user_id = u]
                    names == Take(project_data.competitors, MaxCompanies)
                IN  /\ projects' = projects \cup {brand_project}
                    /\ competitors' = competitors \cup NewCompetitors(names, NewId, TRUE)
                    /\ api' = Respond(call, 201,
                                      [project |-> brand_project,
                                       competitors |-> MapStrip(names)])
    /\ UNCHANGED <<batchVars, settings, words, llms, word_groups, anVars, exVars, svcVars>>

\* PUT /api/brand-projects/{project_id}.  The first statement reads
\* project_data.word_group_id here too; HTTPException is re-raised.
update_brand_project(u, project_id, body) ==
    /\ MayBegin
    /\ LET call == [fn |-> "update_brand_project", user |-> u, id |-> project_id,
                    data |-> body]
           project_data == ParseUpdate(body)
           project == OwnProject(u, project_id)
       IN  IF ~HasAttr(project_data, "word_group_id")
           THEN /\ api' = Respond(call, 500, Idle)
                /\ UNCHANGED <<projects, competitors>>
           ELSE IF project = {}
           THEN /\ api' = Respond(call, 404, Idle)
                /\ UNCHANGED <<projects, competitors>>
           ELSE IF GroupMissing(project_data.word_group_id)
           THEN /\ api' = Respond(call, 400, Idle)
                /\ UNCHANGED <<projects, competitors>>
           ELSE IF ~HasAttr(project_data, "competitors")
           THEN /\ api' = Respond(call, 500, Idle)
                /\ UNCHANGED <<projects, competitors>>
           ELSE LET old == CHOOSE bp \in project : TRUE
                    new == [old EXCEPT
                        !.name = IF project_data.name # NoneStr
                                 THEN project_data.name ELSE @,
                        !.brand_name = IF project_data.brand_name # NoneStr
                                       THEN project_data.brand_name ELSE @,
                        !.word_group_id = IF project_data.word_group_id # NoGroup
                                          THEN project_data.word_group_id ELSE @]
                    names == Take(project_data.competitors, MaxCompanies)
                    kept == {c \in competitors : c.project_id # project_id}
                IN  /\ projects' = (projects \ project) \cup {new}
                    /\ competitors' = kept \cup NewCompetitors(names, project_id, FALSE)
                    /\ api' = Respond(call, 200, [project |-> new])
    /\ UNCHANGED <<batchVars, settings, words, llms, word_groups, anVars, exVars, svcVars>>

\* the sums of start_group_analytics_by_id over the projects of the group
RECURSIVE GroupCounts(_, _)
GroupCounts(brand_projects_list, k) ==
    IF k > Len(brand_projects_list) THEN [total |-> 0, brand |-> 0, competitor |-> 0]
    ELSE LET mentions == MentionsOf(brand_projects_list[k].uuid)
             rest == GroupCounts(brand_projects_list, k + 1)
         IN  [total |-> Cardinality(mentions) + rest.total,
              brand |-> BrandCount(mentions) + rest.brand,
              competitor |-> CompetitorCount(mentions) + rest.competitor]

\* POST /api/analytics/group/{group_id}/start, up to the call of
\* update_serp_data_direct
start_group_analytics_by_id(u, group_id, r) ==
    /\ MayBegin
    /\ api.pending = NoPending
    /\ LET group == {g \in word_groups : g.uuid = group_id}
           brand_projects_list == ProjectsOf(group_id)
           call == [fn |-> "start_group_analytics_by_id", user |-> u, id |-> group_id]
       IN  IF group = {}
           THEN /\ api' = Respond(call, 404, Idle)
                /\ UNCHANGED <<run, started>>
           ELSE IF brand_projects_list = <<>>
           THEN /\ api' = Respond(call, 200, [status |-> "no_projects"])
                /\ UNCHANGED <<run, started>>
           ELSE /\ StartRun(r, "direct", group_id, FALSE)
                /\ api' = [api EXCEPT
                              !.pending = [run |-> r, call |-> call,
                                           brand_projects |-> brand_projects_list]]
    /\ UNCHANGED <<now, db, dataVars, word_groups, anVars, exVars, svcVars>>

\* POST /api/analytics/start, /api/analytics/group/start and
\* /api/serp/update, up to the call of update_serp_data_direct
start_analytics(u, r) ==
    /\ MayBegin
    /\ api.pending = NoPending
    /\ StartRun(r, "direct", NoGroup, FALSE)
    /\ api' = [api EXCEPT
                  !.pending = [run |-> r,
                               call |-> [fn |-> "start_analytics", user |-> u],
                               brand_projects |-> <<>>]]
    /\ UNCHANGED <<now, db, dataVars, word_groups, anVars, exVars, svcVars>>

\* the rest of an endpoint that ran update_serp_data_direct, after the run
\* has returned
AnalyticsReturns ==
    /\ api.pending # NoPending
    /\ run[api.pending.run].pc \in {"done", "gone"}
    /\ LET counts == GroupCounts(api.pending.brand_projects, 1)
       IN  api' = [api EXCEPT
                !.call = api.pending.call,
                !.status = 200,
                !.body = IF api.pending.call.fn = "start_analytics"
                         THEN [status |-> "started"]
                         ELSE [status |-> "completed",
                               total_mentions |-> counts.total,
                               brand_mentions |-> counts.brand,
                               competitor_mentions |-> counts.competitor,
                               brand_visibility_percentage |->
                                   Percentage(counts.brand, counts.total)],
                !.pending = NoPending]
    /\ UNCHANGED <<batchVars, dataVars, word_groups, anVars, exVars, svcVars>>

CompetitorLists == {<<>>, <<<<"B">>>>, <<<<"B">>, <<"c">>>>}
ProjectCreates == {BrandProjectCreate(<<"p">>, <<"a">>, cs) : cs \in CompetitorLists}
ProjectUpdates ==
    {UpdateBody(<<"n">>, NoneStr, FALSE, <<>>),
     UpdateBody(<<"n">>, NoneStr, TRUE, <<<<" ">>, <<"c">>>>)}

InitApi ==
    /\ settings \in KeyConfigs({<<TRUE, FALSE>>})
    /\ word_groups = {WordGroup(1, <<"g">>, 1), WordGroup(2, <<"h">>, 2)}
    /\ words = {Word(1, 1, 1)}
    /\ llms = {LLM(1, "OpenAI", 1)}
    /\ projects = {BrandProject(1, <<"a">>, 1),
                   [BrandProject(2, <<"c">>, 1) EXCEPT !.user_id = 2]}
    /\ competitors = {Competitor(1, <<"B">>, 1), Competitor(2, <<"c">>, 2)}
    /\ now = 0
    /\ db = {}
    /\ run = [r \in Runs |-> IdleRun]
    /\ started = 0
    /\ NoCalls

ApiCall ==
    \E u \in Callers :
        \/ \E name \in GroupNames : create_word_group(u, name)
        \/ \E id \in Ids, name \in NewNames : update_word_group(u, id, name)
        \/ \E id \in Ids : delete_word_group(u, id)
        \/ \E name \in NewNames, g \in {NoGroup} \cup Ids : create_word(u, name, g)
        \/ \E id \in Ids, word_data \in WordUpdates : update_word(u, id, word_data)
        \/ \E id \in Ids : delete_word(u, id)
        \/ \E id \in Ids : get_word_analytics(u, id)
        \/ \E id \in Ids : get_group_analytics(u, id)
        \/ \E r \in Runs : start_analytics(u, r)
        \/ \E id \in Ids, r \in Runs : start_group_analytics_by_id(u, id, r)
        \/ \E project_data \in ProjectCreates : create_brand_project(u, project_data)
        \/ \E id \in Ids, body \in ProjectUpdates :
               update_brand_project(u, id, body)
        \/ \E id \in Ids : get_brand_project(u, id)
        \/ \E id \in Ids : get_brand_analytics(u, id)
        \/ \E id \in Ids : delete_brand_project(u, id)

\* a cycle of the worker process
WorkerCycle(r) ==
    /\ MayBegin
    /\ Start(r, "worker", NoGroup, FALSE)

NextApi ==
    \/ ApiCall
    \/ AnalyticsReturns
    \/ \E r \in Runs : WorkerCycle(r)
    \/ \E r \in Runs : Step(r)
    \/ \E d \in TickSteps : Tick(d)

SpecApi == InitApi /\ [][NextApi]_vars

\* ------------------------------------------------------------------------
\* One direct update over more pairs than a commit interval holds: eleven
\* keywords and one provider, whose answer is a text; the extraction call
\* answers or fails

ManyWords == {Word(k, 1, NoGroup) : k \in 1..(CommitEvery + 1)}

InitCommit ==
    /\ settings = [n \in DirectProviders |-> TRUE]
    /\ word_groups = {}
    /\ words = ManyWords
    /\ llms = {LLM(1, "OpenAI", 1)}
    /\ projects = {}
    /\ competitors = {}
    /\ now = 0
    /\ db = {}
    /\ run = [r \in Runs |-> IdleRun]
    /\ started = MaxRuns - 1
    /\ NoCalls

NextCommit ==
    \/ \E r \in Runs : Start(r, "direct", NoGroup, FALSE)
    \/ \E r \in Runs : Check(r)
    \/ \E r \in Runs : Fetch(r, [ok |-> TRUE, text |-> SerpText])
    \/ \E r \in Runs, answer \in ExtractAnswers : Extract(r, answer)
    \/ \E r \in Runs : EndRun(r)

SpecCommit == InitCommit /\ [][NextCommit]_vars

\* ------------------------------------------------------------------------
\* Properties

SamePair(s1, s2) == s1.word_id = s2.word_id /\ s1.llm_id = s2.llm_id
OfPair(s, p) == s.word_id = p.word.uuid /\ s.llm_id = p.llm.uuid
DaysApart(s1, s2) ==
    IF s1.create_time >= s2.create_time THEN s1.create_time - s2.create_time
    ELSE s2.create_time - s1.create_time

\* the SerpResults of a pair that are younger than the window at time t
FreshOf(S, p, t) == {s \in Serps(S) : OfPair(s, p) /\ t - s.create_time < FreshDays}

C1_Apart ==
    \A s1, s2 \in Serps(AllRows) :
        (s1.uuid # s2.uuid /\ SamePair(s1, s2)) => DaysApart(s1, s2) >= FreshDays

C1_NoFreshDispatch ==
    \A r \in Runs :
        (run[r].pc = "loop" /\ run'[r].pc = "fetch") => FreshOf(AllRows, CurPair(r), now) = {}

\* C1: in non-overlapping batch runs, with time passing between and during
\* them, no fetch is dispatched for a pair that has a SerpResult created
\* less than 14 days before the check, and any two SerpResults of one pair
\* are created at least 14 days apart.
C1_FreshnessWindow == [](C1_Apart) /\ [][C1_NoFreshDispatch]_vars

\* a run has returned that re-created a pair whose SerpResult was 14 days
\* old and passed over a pair whose SerpResult was younger
C1_Witness ==
    \E r \in Runs :
        /\ run[r].pc = "done"
        /\ \E s1, s2 \in Serps(db) :
               /\ s1.uuid # s2.uuid /\ SamePair(s1, s2)
               /\ s2.uuid \in run[r].created
        /\ \E i \in 1..Len(run[r].visits) :
               LET p == run[r].visits[i]
               IN  /\ p \notin run[r].dispatched
                   /\ Dispatches(run[r].mode, p.llm)
                   /\ \E s \in FreshOf(db, p, now) : s.uuid \notin run[r].created

\* the cross-product a run is to visit
EligiblePairs(g) ==
    {[word |-> w, llm |-> l] :
        w \in {x \in words : x.status = 1 /\ (g # NoGroup => x.group_id = g)},
        l \in {y \in llms : y.is_active = 1}}

Visited(r, p) == {i \in 1..Len(run[r].visits) : run[r].visits[i] = p}

C2_EveryPairOnce ==
    \A r \in Runs :
        run[r].pc = "done" =>
            /\ \A p \in EligiblePairs(run[r].group_id) : Cardinality(Visited(r, p)) = 1
            /\ Len(run[r].visits) = Cardinality(EligiblePairs(run[r].group_id))

C2_Terminates == \A r \in Runs : (run[r].pc \notin {"idle", "gone"}) ~> (run[r].pc = "done")

RowsOfPair(S, r, p) ==
    LET serps == {s \in Serps(S) : s.uuid \in run[r].created /\ OfPair(s, p)}
    IN  serps \cup {x \in Companies(S) \cup Mentions(S) :
                       \E s \in serps : x.serp_id = s.uuid}

\* C3: when a pair raises after its SerpResult is written, the pair's
\* writes are rolled back: once the run has returned, the database holds no
\* row the run wrote for that pair.
C3_PairRolledBack ==
    \A r \in Runs :
        run[r].pc = "done" => \A p \in run[r].raised : RowsOfPair(db, r, p) = {}

\* C4: with two invocations at once, nothing keeps an invocation from
\* inserting the SerpResult of a text it has fetched, whatever the other has
\* inserted since its freshness check; two SerpResults of one pair within
\* the window is the state C4_Duplicate.
C4_InsertNotPrevented ==
    \A r \in Runs :
        \A g \in run[r].got :
            \E s \in Serps(AllRows) :
                s.uuid \in run[r].created /\ OfPair(s, g.pair) /\ s.content = g.text

\* the committed database holds two SerpResults of one pair created less
\* than 14 days apart
C4_Duplicate ==
    \E s1, s2 \in Serps(db) :
        s1.uuid # s2.uuid /\ SamePair(s1, s2) /\ DaysApart(s1, s2) < FreshDays

C5_OnlyEligible ==
    \A r \in Runs :
        \A s \in Serps(AllRows) :
            s.uuid \in run[r].created =>
                \E w \in words, l \in llms :
                    /\ w.uuid = s.word_id /\ l.uuid = s.llm_id
                    /\ w.status = 1
                    /\ l.is_active = 1
                    /\ run[r].group_id # NoGroup => w.group_id = run[r].group_id

C5_ExactlyOne ==
    \A r \in Runs :
        run[r].pc = "done" =>
            \A g \in run[r].got :
                LET made == {s \in Serps(db) : s.uuid \in run[r].created /\ OfPair(s, g.pair)}
                IN  /\ Cardinality(made) = 1
                    /\ \A s \in made : s.content = g.text

C6_KeylessSkipped ==
    \A r \in Runs :
        /\ \A p \in run[r].dispatched : settings[NameLower(p.llm.name)]
        /\ \A s \in Serps(AllRows) :
               s.uuid \in run[r].created =>
                   \A l \in llms : l.uuid = s.llm_id => settings[NameLower(l.name)]
        /\ run[r].pc = "done" =>
               \A p \in EligiblePairs(run[r].group_id) : Visited(r, p) # {}

\* two characters that differ at most in case
SameLetter(c, d) == c = d \/ {c, d} \in {{"a", "A"}, {"b", "B"}, {"c", "C"}}

\* the name is found in the string, whatever the case of the letters
Contains(name, str) ==
    \E i \in 0..(Len(str) - Len(name)) :
        \A j \in 1..Len(name) : SameLetter(str[i + j], name[j])

\* the name occurs in the text; nothing occurs in an empty text
Occurs(name, text) == text # <<>> /\ Contains(name, text)

\* C7: for a non-empty brand name, both analyzers report brand_mentioned
\* exactly when the brand name occurs in the response text as a
\* case-insensitive substring.
C7_BrandMentioned ==
    (an_out # Idle /\ an_in.brand # <<>>) =>
        (an_out.result.brand_mentioned <=> Occurs(an_in.brand, an_in.text))

\* a brand is reported that occurs in the text in another case only
C7_Witness ==
    /\ an_out # Idle
    /\ an_out.result.brand_mentioned
    /\ ~StrIn(an_in.brand, an_in.text)

LinesOf(text) == Split(text, "\n")
LinesWith(name, text) ==
    {i \in 1..Len(LinesOf(text)) : Contains(name, LinesOf(text)[i])}
IsFirstLineWith(pos, name, text) ==
    pos \in LinesWith(name, text) /\ \A i \in LinesWith(name, text) : pos <= i

PositionOf(name, text) ==
    IF LinesWith(name, text) = {} THEN NoPos
    ELSE CHOOSE pos \in LinesWith(name, text) : \A i \in LinesWith(name, text) : pos <= i

Occurring(names, text) == {k \in 1..Len(names) : Occurs(names[k], text)}

\* C9: mentioned_competitor is the first competitor of the list that occurs
\* in the text, competitor_mentioned tells whether any occurs, and
\* mentioned_competitor is null when none does.
C9_FirstCompetitor ==
    (an_out # Idle /\ an_out.fn = "worker") =>
        LET res == an_out.result
            occ == Occurring(an_in.competitors, an_in.text)
        IN  /\ res.competitor_mentioned <=> occ # {}
            /\ occ = {} => res.mentioned_competitor = NoneStr
            /\ occ # {} =>
                   \E k \in occ :
                       /\ \A m \in occ : k <= m
                       /\ res.mentioned_competitor = an_in.competitors[k]

\* two different competitors occur in the text and the first is reported
C9_Witness ==
    /\ an_out # Idle /\ an_out.fn = "worker"
    /\ Len(an_in.competitors) = 2
    /\ an_in.competitors[1] # an_in.competitors[2]
    /\ Occurring(an_in.competitors, an_in.text) = {1, 2}
    /\ an_out.result.mentioned_competitor = an_in.competitors[1]

\* C10: every extractor returns the empty list for the empty string.
C10_EmptyTextEmptyList ==
    (ex_out # Idle /\ ex_in.text = <<>>) => ex_out = Returned(<<>>)

\* the answer's content split on commas, each item trimmed, the items of 2
\* characters or fewer dropped, the first 10 kept
C11_Parsed(content) ==
    Take(SelectSeq(MapStrip(Split(content, ",")), LAMBDA c : Len(c) > 2), 10)

C11_PrimaryPath ==
    /\ ex_out # Idle
    /\ ex_in.answer.status = 200
    /\ ex_in.fn = "service" => ex_in.available

\* C11: on the primary path every extractor returns the answer split on
\* commas and trimmed, without the items of 2 characters or fewer, cut at 10
\* items.
C11_SplitTrimFilterCap ==
    C11_PrimaryPath => ex_out = Returned(C11_Parsed(ex_in.answer.content))

\* C12: a failed extraction call is not fatal for its pair: when the run has
\* returned, the pair's SerpResult is kept, the brand mentions of the
\* keyword's projects are written for it, and the pair is counted.
C12_ExtractionFailureNotFatal ==
    \A r \in Runs :
        run[r].pc = "done" =>
            /\ \A p \in run[r].failed :
                   \E s \in Serps(db) :
                       /\ s.uuid \in run[r].created /\ OfPair(s, p)
                       /\ ProjectsOf(p.word.group_id) # <<>> =>
                              \E m \in Mentions(db) : m.serp_id = s.uuid
            /\ run[r].processed_count = Cardinality({g.pair : g \in run[r].got})

\* C13: a request calls the provider at most 3 times, returns at the first
\* attempt that succeeds, waits 1 s after the first failure and 2 s after
\* the second, and does not wait after the third.
C13_RetryBackoff ==
    /\ rq.calls <= 3
    /\ rq.calls > 0 => Len(rq.sleeps) = rq.calls - 1
    /\ \A k \in 1..Len(rq.sleeps) : rq.sleeps[k] = 2 ^ (k - 1)
    /\ rq.pc = "sleep" => rq.failures \in {1, 2}
    /\ rq.failures = 3 => rq.pc = "done" /\ Failed(rs)
    /\ (rq.pc = "done" /\ rq.calls > 0 /\ ~Failed(rs)) => rq.failures = rq.calls - 1

\* a request has succeeded at its third attempt
C13_Witness ==
    /\ rq.pc = "done" /\ rq.calls = 3 /\ rq.failures = 2
    /\ ~Failed(rs)
    /\ rq.sleeps = <<1, 2>>

SameCacheFields(r1, r2) ==
    /\ r1.provider = r2.provider /\ r1.prompt = r2.prompt
    /\ r1.model = r2.model /\ r1.temperature = r2.temperature

\* the cache entries that answer a request with the four fields of `request`
EntriesFor(request) == {k \in DOMAIN cache : SameCacheFields(cache[k].request, request)}

C14_Lookup ==
    \A request \in Requests :
        (rq.pc \in {"idle", "done"} /\ rq'.n = rq.n + 1 /\ rq'.request = request) =>
            \A k \in EntriesFor(request) :
                IF clock - cache[k].timestamp < 3600
                THEN /\ rq'.pc = "done" /\ rq'.calls = 0
                     /\ rs'.cached /\ ~Failed(rs') /\ rs'.content = cache[k].data.content
                ELSE /\ rq'.pc = "call" /\ rq'.calls = 1
                     /\ k \notin DOMAIN cache'

C14_Stored ==
    (rq.pc = "call" /\ rq'.pc = "done" /\ ~Failed(rs')) =>
        \E k \in DOMAIN cache' :
            /\ cache'[k].request = rq.request
            /\ cache'[k].timestamp = clock
            /\ cache'[k].data.content = rs'.content

\* C14: after a request has succeeded, a call with the same provider,
\* prompt, model and temperature made less than 3600 s after the answer was
\* stored returns the stored content, flagged cached, without a provider
\* call; made 3600 s after it or later, it deletes the entry and calls the
\* provider.
C14_CacheWindow == [][C14_Stored /\ C14_Lookup]_vars

\* a call with another system prompt and token limit was answered from the
\* cache 1800 s after the answer was stored
C14_Witness ==
    /\ rq.pc = "done" /\ rq.calls = 0
    /\ rs # Idle /\ rs.cached
    /\ \E k \in EntriesFor(rq.request) :
           /\ cache[k].request.system_prompt # rq.request.system_prompt
           /\ cache[k].request.max_tokens # rq.request.max_tokens
           /\ clock - cache[k].timestamp = 1800

\* C15: every BrandMention's serp_id names a SerpResult there is and its
\* project_id names a BrandProject there is, whatever API calls and batch
\* runs have been made.
C15_MentionsReferenceRows ==
    \A m \in Mentions(AllRows) :
        /\ \E s \in Serps(AllRows) : s.uuid = m.serp_id
        /\ \E bp \in projects : bp.uuid = m.project_id

\* a committed mention of a project that DELETE /api/brand-projects/{id} has
\* deleted
C15_Witness ==
    /\ api.n > 0
    /\ \E m \in Mentions(db), bp \in projects :
           /\ bp.uuid = m.project_id
           /\ bp.status = 0

Distinct(xs) == \A i, j \in 1..Len(xs) : i # j => xs[i] # xs[j]
NonBlank(xs) == \A i \in 1..Len(xs) : Strip(xs[i]) # <<>>

\* C16: POST /api/brand-projects with a list of n <= 10 distinct non-blank
\* competitor names answers 201, and the response and the project read back
\* carry exactly n competitors, with the names of the list.
C16_CreateReadBack ==
    (/\ api.call.fn = "create_brand_project"
     /\ Len(api.call.data.competitors) <= 10
     /\ Distinct(api.call.data.competitors)
     /\ NonBlank(api.call.data.competitors)) =>
        /\ api.status = 201
        /\ Len(api.body.competitors) = Len(api.call.data.competitors)
        /\ Range(api.body.competitors) = Range(api.call.data.competitors)
        /\ CompetitorNamesOf(CompetitorsOf(api.body.project), 1) = api.body.competitors

\* the step is the caller's PUT /api/word-groups/{id} on a group of theirs
RenameStep ==
    /\ api'.n = api.n + 1
    /\ api'.call.fn = "update_word_group"
    /\ OwnGroup(api'.call.user, api'.call.id) # {}

C17_Rename ==
    RenameStep =>
        /\ api'.status = 200
        /\ api'.body.uuid = api'.call.id
        /\ api'.body.name = api'.call.name
        /\ \A g \in word_groups' : g.uuid = api'.call.id => g = api'.body
        /\ {g.uuid : g \in word_groups'} = {g.uuid : g \in word_groups}
        /\ \A g \in word_groups : g.uuid # api'.call.id => g \in word_groups'

\* C17: a rename of a keyword group by its owner answers with the group
\* under the same id and the new name, the stored group is that one, and
\* every other keyword group is as it was.
C17_RenameRoundTrip == [][C17_Rename]_vars

\* the group that POST /api/word-groups created as "m" has been renamed
\* "n"; the caller's other group and the other user's group keep their names
C17_Witness ==
    /\ api.call.fn = "update_word_group" /\ api.status = 200
    /\ api.call.id = 3
    /\ WordGroup(3, <<"n">>, 1) \in word_groups
    /\ WordGroup(1, <<"g">>, 1) \in word_groups
    /\ WordGroup(2, <<"h">>, 2) \in word_groups

\* C18: every Competitor row references exactly one BrandProject, and once
\* DELETE /api/brand-projects/{id} has answered for a project none of the
\* project's Competitor rows is left.
C18_CompetitorsGoWithProject ==
    /\ \A c \in competitors : Cardinality({bp \in projects : bp.uuid = c.project_id}) = 1
    /\ (api.call.fn = "delete_brand_project" /\ api.status = 200) =>
           \A c \in competitors : c.project_id # api.call.id

GroupEndpoints == {"update_word_group", "delete_word_group"}
WordEndpoints == {"update_word", "delete_word", "get_word_analytics"}
ProjectEndpoints ==
    {"get_brand_project", "update_brand_project", "delete_brand_project",
     "get_brand_analytics"}
ByIdEndpoints ==
    GroupEndpoints \cup WordEndpoints \cup ProjectEndpoints \cup {"get_group_analytics"}

\* the call addresses a row that is not there for the caller
Absent(call) ==
    \/ call.fn \in GroupEndpoints /\ OwnGroup(call.user, call.id) = {}
    \/ call.fn \in WordEndpoints /\ \A w \in words : w.uuid # call.id
    \/ call.fn \in ProjectEndpoints /\ OwnProject(call.user, call.id) = {}
    \/ call.fn = "get_group_analytics" /\ \A g \in word_groups : g.uuid # call.id

C19_Step ==
    (api'.n = api.n + 1 /\ api'.call.fn \in ByIdEndpoints /\ Absent(api'.call)) =>
        /\ api'.status = 404
        /\ UNCHANGED <<db, words, word_groups, projects, competitors>>

\* C19: an endpoint that addresses a keyword, a keyword group or a brand
\* project by id answers 404 when the caller has no such row, and stores
\* nothing.
C19_NotFound == [][C19_Step]_vars

\* pct is 100 * brand / total, or 0 when total is 0, and lies in 0..100
IsVisibility(pct, brand, total) ==
    /\ pct.den > 0
    /\ total > 0 => pct.num * total = 100 * brand * pct.den
    /\ total = 0 => pct.num = 0
    /\ 0 <= pct.num /\ pct.num <= 100 * pct.den

MentionsOfAll(project_ids) == {m \in Mentions(db) : m.project_id \in project_ids}
WithBrand(mentions) == {m \in mentions : m.brand_mentioned = 1}

C20_BrandAnalytics ==
    (/\ api'.n = api.n + 1
     /\ api'.call.fn = "get_brand_analytics"
     /\ api'.status = 200) =>
        LET mentions == MentionsOfAll({api'.call.id})
        IN  IsVisibility(api'.body.brand_visibility_percentage,
                         Cardinality(WithBrand(mentions)), Cardinality(mentions))

C20_GroupAnalysis ==
    (/\ api.pending # NoPending
     /\ api'.pending = NoPending
     /\ api'.call.fn = "start_group_analytics_by_id") =>
        LET mentions == MentionsOfAll({bp.uuid : bp \in Range(api.pending.brand_projects)})
        IN  IsVisibility(api'.body.brand_visibility_percentage,
                         Cardinality(WithBrand(mentions)), Cardinality(mentions))

\* C20: the brand_visibility_percentage of brand analytics and of the group
\* analysis is 100 * brand mentions / mentions of the project (of the
\* group's projects), 0 when there is no mention, and lies between 0 and 100.
C20_VisibilityPercentage == [][C20_BrandAnalytics /\ C20_GroupAnalysis]_vars

\* a group analysis has reported one brand mention among two mentions as 50
C20_Witness ==
    /\ api.call.fn = "start_group_analytics_by_id"
    /\ api.status = 200
    /\ api.body.status = "completed"
    /\ api.body.total_mentions = 2
    /\ api.body.brand_mentions = 1
    /\ api.body.brand_visibility_percentage = Frac(50, 1)

\* the pairs a direct run has processed to the end: their text was saved and
\* nothing was raised for them
Processed(r) ==
    {g.pair : g \in run[r].got} \ (run[r].raised \cup
        (IF run[r].pc = "extract" THEN {CurPair(r)} ELSE {}))

\* those of them with a row the session has not committed
Uncommitted(r) ==
    {p \in Processed(r) : RowsOfPair(run[r].flushed \cup run[r].new, r, p) # {}}

C21_AtMostTen ==
    \A r \in Runs :
        run[r].mode = "direct" /\ run[r].pc \notin {"idle", "gone"} =>
            /\ run[r].processed_count = Cardinality(Processed(r))
            /\ Cardinality(Uncommitted(r)) <= 10
            /\ \A p \in Processed(r) : RowsOfPair(AllRows, r, p) # {}
            /\ run[r].pc = "done" => Uncommitted(r) = {}

C21_CommitAtMultiple ==
    \A r \in Runs :
        (/\ run[r].mode = "direct"
         /\ run'[r].processed_count = run[r].processed_count + 1
         /\ run'[r].processed_count % 10 = 0) =>
            /\ run'[r].flushed = {} /\ run'[r].new = {}
            /\ db \cup run[r].flushed \subseteq db'

\* C21: update_serp_data_direct commits when the count of processed pairs
\* reaches a multiple of 10 and after the last pair: a run never holds more
\* than 10 processed pairs uncommitted, and once it has returned the rows of
\* every processed pair are committed.
C21_CommitEveryTen == [](C21_AtMostTen) /\ [][C21_CommitAtMultiple]_vars

\* the run has committed at its tenth processed pair and goes on with the
\* eleventh
C21_Witness ==
    \E r \in Runs :
        /\ run[r].mode = "direct" /\ run[r].pc = "extract"
        /\ run[r].processed_count = 10
        /\ Cardinality(Serps(db)) = 10
        /\ Uncommitted(r) = {}

Digits == {"0", "1", "2", "3", "4", "5", "6", "7", "8", "9"}

\* the name without a leading numbering "N. "
RECURSIVE Unnumbered(_, _)
Unnumbered(name, i) ==
    IF i <= Len(name) /\ name[i] \in Digits THEN Unnumbered(name, i + 1)
    ELSE IF i > 1 /\ i + 1 <= Len(name) /\ name[i] = "." /\ name[i + 1] = " "
    THEN SubSeq(name, i + 2, Len(name))
    ELSE name

HasMarker(line) == \E k \in 1..Len(keywords) : StrIn(Lower(keywords[k]), Lower(line))

\* the names the heuristic is to find: of each line with a marker word, the
\* text before the first " - ", without its numbering, if longer than 2
HeuristicNames(text) ==
    LET lines == Split(text, "\n")
        name(i) == Unnumbered(Strip(SplitStr(lines[i], <<" ", "-", " ">>)[1]), 1)
    IN  {name(i) : i \in {j \in 1..Len(lines) : HasMarker(lines[j]) /\ Len(name(j)) > 2}}

C22_FallbackCase ==
    /\ ex_out # Idle
    /\ ex_in.fn = "service"
    /\ ~ex_in.available \/ ex_in.answer.status # 200

\* C22: without a configured extraction provider, or when the extraction
\* request ends in error, extract_companies_from_text returns the names of
\* the keyword heuristic, none twice and at most 10 of them.
C22_FallbackResult ==
    C22_FallbackCase =>
        /\ ~ex_out.raised
        /\ Distinct(ex_out.companies)
        /\ Len(ex_out.companies) <= 10
        /\ Range(ex_out.companies) \subseteq HeuristicNames(ex_in.text)
        /\ Cardinality(HeuristicNames(ex_in.text)) <= 10 =>
               Range(ex_out.companies) = HeuristicNames(ex_in.text)

\* the brand mentions that the session of run r holds, after the step, for
\* the SerpResult it stood at and the project
C23_Rows(r, bp) ==
    {m \in Mentions(db' \cup run'[r].flushed \cup run'[r].new) :
        m.serp_id = run[r].word_serp /\ m.project_id = bp.uuid}

C23_Step(r) ==
    (/\ run[r].pc = "extract"
     /\ run[r].mode = "direct"
     /\ run'[r] # run[r]) =>
        \A bp \in {b \in projects : /\ CurPair(r).word.group_id # NoGroup
                                    /\ b.word_group_id = CurPair(r).word.group_id} :
            LET cs == {c \in competitors : c.project_id = bp.uuid}
                rows == C23_Rows(r, bp)
            IN  /\ Cardinality(rows) = IF cs = {} THEN 1 ELSE Cardinality(cs)
                /\ cs = {} => \A m \in rows : m.mentioned_competitor = NoneStr
                /\ \A c \in cs :
                       Cardinality({m \in rows : m.mentioned_competitor = c.name}) = 1
                /\ \A m, n \in rows : m.brand_mentioned = n.brand_mentioned

\* C23: in the direct update, the step that follows a new SerpResult leaves,
\* for each brand project of the keyword's group, one brand mention per
\* competitor of the project, or a single brand-only mention when it has no
\* competitor, all with the same brand_mentioned.
C23_MentionRowsPerProject == [][\A r \in Runs : C23_Step(r)]_vars

\* the names of the project's Competitor rows
C24_Names(S, project_id) == {c.name : c \in {x \in S : x.project_id = project_id}}

\* the stripped names, without the blank ones, of the first 10 of the list
C24_Kept(L) == {Strip(n) : n \in {m \in Range(Take(L, 10)) : Strip(m) # <<>>}}

C24_Put ==
    /\ api'.n # api.n
    /\ api'.call.fn = "update_brand_project"
    /\ OwnProject(api'.call.user, api'.call.id) # {}

\* C24: a PUT of a project with a competitors list leaves as the project's
\* competitors the stripped non-blank names among the first 10 of the list
\* and none of the earlier rows, a PUT without a list leaves the project's
\* competitors as they were, and no project has more than 10 competitors.
C24_CompetitorsReplaced ==
    /\ [][C24_Put =>
            IF api'.call.data.competitors_sent
            THEN /\ C24_Names(competitors', api'.call.id) = C24_Kept(api'.call.data.competitors)
                 /\ \A c \in competitors' :
                        c.project_id = api'.call.id => c \notin competitors
            ELSE {c \in competitors' : c.project_id = api'.call.id}
                    = {c \in competitors : c.project_id = api'.call.id}]_vars
    /\ [](\A bp \in projects :
            Cardinality({c \in competitors : c.project_id = bp.uuid}) <= 10)

\* C25: every persisted brand mention with brand_mentioned = 1 carries a
\* brand position, and every one with competitor_mentioned = 1 carries a
\* competitor position.
C25_PositionsWithMentions ==
    \A m \in Mentions(db) :
        /\ m.brand_mentioned = 1 => m.brand_position # NoPos
        /\ m.competitor_mentioned = 1 => m.competitor_position # NoPos

\* C26: in every persisted brand mention, mentioned_competitor is set
\* exactly when competitor_mentioned = 1.
C26_NamedOnlyWhenMentioned ==
    \A m \in Mentions(db) :
        m.mentioned_competitor # NoneStr <=> m.competitor_mentioned = 1

\* C27: a call of make_request_with_retry ends with a response, never with
\* an exception; after 3 failed attempts the response has empty content,
\* the model 'error' and the message of the last failure as its error; for
\* a provider that is not configured the call returns an error response
\* without a provider call.
C27_ErrorResponses ==
    rq.pc = "done" =>
        /\ DOMAIN rs = DOMAIN LLMResponse(<<>>, "error", NoError, FALSE)
        /\ rq.failures = 3 =>
               rs = LLMResponse(<<>>, "error", rq.errors[Len(rq.errors)], FALSE)
        /\ ~settings[rq.request.provider] =>
               /\ rq.calls = 0
               /\ Failed(rs) /\ rs.content = <<>> /\ rs.model = "unavailable"

\* three attempts have failed, the first and the last with different
\* messages
C27_Witness ==
    /\ rq.pc = "done" /\ rq.failures = 3
    /\ rq.errors[1] # rq.errors[3]
    /\ rs.error = rq.errors[3]

\* the call of request that the step begins
C28_Begins(request) ==
    /\ rq.pc \in {"idle", "done"}
    /\ rq'.n = rq.n + 1
    /\ rq'.request = request

\* the step ends a call with a failure: the attempts have failed or the
\* provider is not configured
C28_Fails == rq'.pc = "done" /\ rq' # rq /\ Failed(rs')

C28_Step ==
    /\ C28_Fails =>
           \A k \in DOMAIN cache' : k \in DOMAIN cache /\ cache'[k] = cache[k]
    /\ \A request \in Requests :
           (C28_Begins(request) /\ rq.pc = "done" /\ Failed(rs)
                /\ SameCacheFields(rq.request, request)) =>
               /\ ~(rq'.pc = "done" /\ rs'.cached)
               /\ rs.model = "error" => rq'.pc = "call" /\ rq'.calls = 1

\* C28: every cache entry is a response without error; a call that fails,
\* or whose provider is not configured, stores nothing; a response served
\* from the cache is no failure, and the request that follows a failed one
\* with the same key fields is not served from the cache: it calls the
\* provider again.
C28_NoFailureCached ==
    /\ [](\A k \in DOMAIN cache : ~Failed(cache[k].data))
    /\ []((rq.pc = "done" /\ rs.cached) => ~Failed(rs))
    /\ [][C28_Step]_vars

\* a request is at its provider call right after a request failed three
\* times, and the cache holds nothing
C28_Witness ==
    /\ rq.pc = "call" /\ rq.calls = 1 /\ rq.n > 1
    /\ rs # Idle /\ rs.model = "error"
    /\ cache = EmptyCache

\* the row the call addresses is there and belongs to another user
C29_Foreign(call) ==
    \/ /\ call.fn \in GroupEndpoints
       /\ \E g \in word_groups : g.uuid = call.id /\ g.user_id # call.user
    \/ /\ call.fn \in ProjectEndpoints
       /\ \E bp \in projects : bp.uuid = call.id /\ bp.user_id # call.user

\* there is no row with the id the call addresses
C29_NoRow(call) ==
    \/ call.fn \in GroupEndpoints /\ \A g \in word_groups : g.uuid # call.id
    \/ call.fn \in ProjectEndpoints /\ \A bp \in projects : bp.uuid # call.id

\* the status each of the endpoints gives for an id without a row
C29_NotThere(fn) ==
    IF fn \in {"update_brand_project", "get_brand_analytics"} THEN 500 ELSE 404

C29_Step ==
    (/\ api'.n = api.n + 1
     /\ api'.call.fn \in GroupEndpoints \cup ProjectEndpoints
     /\ C29_Foreign(api'.call) \/ C29_NoRow(api'.call)) =>
        /\ api'.status = C29_NotThere(api'.call.fn)
        /\ api'.body = Idle
        /\ UNCHANGED <<db, words, word_groups, projects, competitors>>

\* C29: update and delete of a keyword group, and read, update, delete and
\* analytics of a brand project, answer for a row of another user what they
\* answer for an id without a row, return nothing of the row and leave the
\* groups, the projects and the competitors as they were.
C29_ForeignAsAbsent == [][C29_Step]_vars

\* user 1 has asked to delete the project of user 2, which is there with
\* its competitor, and has been answered as for a project that is not there
C29_Witness ==
    /\ api.call.fn = "delete_brand_project" /\ api.call.user = 1 /\ api.call.id = 2
    /\ api.status = 404
    /\ \E bp \in projects : bp.uuid = 2 /\ bp.user_id = 2 /\ bp.status = 1
    /\ Competitor(2, <<"c">>, 2) \in competitors

\* C30: the persisted company rows of one SerpResult have pairwise
\* distinct names.
C30_DistinctCompanyNames ==
    \A c, d \in Companies(db) :
        (c.serp_id = d.serp_id /\ c.name = d.name) => c = d

====
